---- MODULE Spec2Model ----
(***************************************************************************)
(* State-machine model of the outbound side of lectura-app's AI service:   *)
(* the AgentStateManager (MongoDB primary store + Redis cache) of          *)
(* app/pipeline/outbound/agent_state.py and the LangGraph agent of         *)
(* app/pipeline/outbound/agent.py.                                         *)
(*                                                                         *)
(* The repository holds two copies of agent_state.py and agent_tools.py.   *)
(* The State Manager and retrieve_previous_sources modelled here are the   *)
(* later ones, src/ai_service/...; agent.py exists under                   *)
(* src/ai-services/pdf-project/... only.                                   *)
(*                                                                         *)
(* One conversation thread (one user_id:course_id pair) is modelled.       *)
(* Strings that the code produces with json.dumps are modelled as records  *)
(* [kind |-> "json", doc |-> d]; json.loads is Parse, which fails on every *)
(* other kind of content.  Python's None is the string "none" for ids and  *)
(* names and the record None for optional dictionaries.                    *)
(*                                                                         *)
(* The specifications share the variables: Spec (the message path of the   *)
(* State Manager), SourcesSpec (its sources path), CapSpec (the cap of     *)
(* append_messages, on long threads), AgentSpec (one request through the   *)
(* agent graph), ChunkSpec (chunk_pdf of inbound/chunking/chunking.py),    *)
(* ValidateSpec (its validate_sibling_contiguity on any chunk list) and    *)
(* RetrievalSpec (retrieve_similar_chunks of outbound/rag_retrieval.py).   *)
(***************************************************************************)
EXTENDS Integers, Sequences, FiniteSets, TLC

VARIABLES
    primary,        \* the thread's MongoDB document: [exists, messages]
    cacheState,     \* Redis string key agent_state:{thread}
    cacheSources,   \* Redis hash agent_sources:{thread}: message id -> entry
    cacheImages,    \* Redis hash agent_images:{thread}: set of message ids
    op,             \* the last State Manager call: its arguments and result
    request,        \* process_query's arguments: search_type, snapshot
    pc,             \* where the request is: idle, a graph node, end, done, failed
    visits,         \* graph nodes run so far in this request
    graphMessages,  \* GraphState.messages
    history,        \* what get_conversation_history returned to this request
    rag_counter,    \* GraphState.rag_counter
    web_counter,    \* GraphState.web_counter
    final,          \* what format_response put in the state
    response,       \* the AgentResponse handed to the caller
    toolLog,        \* the tool calls the tools node ran or rejected, in order
    nextId,         \* uuid4 / LLM message ids handed out so far
    markdown,       \* chunk_pdf's input after convert_pdf_to_markdown
    chunks,         \* the chunk list chunk_pdf returned
    validation,     \* validate_sibling_contiguity's argument and outcome
    retrieval,      \* retrieve_similar_chunks' arguments and result
    collection,     \* the MongoDB chunk collection: a set of documents
    storeLog        \* the calls on the collection so far, with their results

smVars == <<primary, cacheState, cacheSources, cacheImages, op>>
agentVars == <<request, pc, visits, graphMessages, history, rag_counter, web_counter,
               final, response, toolLog, nextId>>
ragVars == <<markdown, chunks, validation, retrieval>>
storeVars == <<collection, storeLog>>
vars == <<smVars, agentVars, ragVars, storeVars>>

-----------------------------------------------------------------------------
(* Bounds of the model. *)

\* Longest stored thread the state-manager specifications explore.
MaxThreadLen == 2
\* Most messages the capping specification appends to one thread.
MaxAppended == 120
\* Most tool calls of one request that name a tool its graph can run.
MaxToolCalls == 2
\* Most results one search returns.
MaxResults == 1

(* Program constants. *)

\* agent_state.py:452  "if len(all_messages_data) > 100"
MaxStoredMessages == 100
\* agent_state.py:184  "limit: int = 50"
DefaultHistoryLimit == 50
\* agent.py:568  "recursion_limit": 10
RecursionLimit == 10
\* agent_state.py:174  self.redis_ttl = 3600 * 24
RedisTtl == 86400
\* inbound_pipeline.py:47  ThreadPoolExecutor(max_workers=8, ...)
ThreadPoolWorkers == 8
\* inbound_pipeline.py:283  max_batch_size: int = 128
EmbeddingBatchSize == 128
\* inbound_pipeline.py:301  MAX_CONCURRENT_BATCHES = 6
MaxConcurrentBatches == 6
\* inbound_pipeline.py:348  BATCH_SIZE = 200
UploadBatchSize == 200

-----------------------------------------------------------------------------
(* Values. *)

None == [none |-> TRUE]

Min(a, b) == IF a < b THEN a ELSE b

\* d.get(k, default) for a dictionary modelled as a record.
Get(d, k, default) == IF k \in DOMAIN d THEN d[k] ELSE default

\* seq[-n:] for n >= 1.
LastN(seq, n) ==
    IF Len(seq) <= n THEN seq ELSE SubSeq(seq, Len(seq) - n + 1, Len(seq))

TextContent(t) == [kind |-> "text", text |-> t]
\* A HumanMessage content list [{"type":"text"}, {"type":"image_url"}].
MultimodalContent(t, url) == [kind |-> "multimodal", text |-> t, image_url |-> url]
\* A string that is a JSON document (the result of json.dumps(d)).
JsonContent(d) == [kind |-> "json", doc |-> d]
\* A non-empty string that is not JSON (ToolNode's "Error: ..." texts).
RawContent(t) == [kind |-> "raw", text |-> t]
EmptyContent == [kind |-> "empty"]

\* json.loads(content): the document, or ParseError when it raises.
ParseError == [parse_error |-> TRUE]
Parse(content) == IF content.kind = "json" THEN content.doc ELSE ParseError

\* A LangChain message object.
RunMsg(cls, id, content, name, tool_calls, tool_call_id) ==
    [cls |-> cls, id |-> id, content |-> content, name |-> name,
     tool_calls |-> tool_calls, tool_call_id |-> tool_call_id]

\* A tool whose except branch leaves the results out: the variant C11 is
\* checked against.
FailWithoutResults(err) == [success |-> FALSE, error |-> err]

\* A tool's return value on success / on a caught exception.
ToolOk(results) == [success |-> TRUE, results |-> results, count |-> Len(results)]
ToolFail(err) == [success |-> FALSE, error |-> err, results |-> <<>>]

\* A source as a tool returns it; only id and text are kept.
Source(id, text) == [id |-> id, text |-> text]

-----------------------------------------------------------------------------
(* serialize_message / deserialize_message. *)

\* A serialization that stores the content list as it is: the variant C28 is
\* checked against.
KeepContent(content) == content

\* The image_url entries of a multimodal HumanMessage are removed and the one
\* remaining text item is replaced by its text.
StripImages(content) ==
    IF content.kind = "multimodal" THEN TextContent(content.text) ELSE content

MsgType(cls) ==
    CASE cls = "HumanMessage" -> "human"
      [] cls = "AIMessage" -> "ai"
      [] cls = "ToolMessage" -> "tool"
      [] OTHER -> "system"

ImageSourceOf(sources) ==
    IF Get(sources, "s3key", "none") # "none"
    THEN [present |-> TRUE, s3key |-> sources.s3key,
          slide_id |-> Get(sources, "slide_id", "none"),
          page_number |-> Get(sources, "page_number", "none")]
    ELSE [present |-> FALSE]

NoRefs == [present |-> FALSE]

RefsOf(sources) ==
    [present |-> TRUE,
     rag_source_ids |-> Get(sources, "rag_source_ids", <<>>),
     web_source_ids |-> Get(sources, "web_source_ids", <<>>),
     image_source |-> ImageSourceOf(sources)]

\* serialize_message(message, sources): sources is None or a sources_map value.
serialize_message(message, sources) ==
    [type |-> MsgType(message.cls),
     content |-> IF message.cls = "HumanMessage"
                 THEN StripImages(message.content) ELSE message.content,
     id |-> message.id,
     name |-> message.name,
     tool_calls |-> message.tool_calls,
     tool_call_id |-> message.tool_call_id,
     refs |-> IF message.cls = "AIMessage" /\ sources # None
              THEN RefsOf(sources) ELSE NoRefs,
     sources |-> None]

\* deserialize_message(data): the source-reference keys are not carried over.
deserialize_message(data) ==
    CASE data.type = "human" ->
           RunMsg("HumanMessage", data.id, data.content, data.name, <<>>, "none")
      [] data.type = "ai" ->
           RunMsg("AIMessage", data.id, data.content, data.name,
                  data.tool_calls, "none")
      [] data.type = "tool" ->
           RunMsg("ToolMessage", data.id, data.content, data.name, <<>>,
                  data.tool_call_id)
      [] data.type = "system" ->
           RunMsg("SystemMessage", data.id, data.content, data.name, <<>>, "none")
      [] OTHER ->
           RunMsg("HumanMessage", "none", data.content, "none", <<>>, "none")

\* sources_map.get(msg_id) if sources_map and msg_id else None
SourcesFor(sources_map, msg_id) ==
    IF msg_id # "none" /\ msg_id \in DOMAIN sources_map
    THEN sources_map[msg_id] ELSE None

SerializeAll(messages, sources_map) ==
    [i \in 1..Len(messages) |->
        serialize_message(messages[i], SourcesFor(sources_map, messages[i].id))]

-----------------------------------------------------------------------------
(* _process_messages_for_history: tool content replaced by a summary. *)

TruncatedContent(msg) ==
    LET doc == Parse(msg.content) IN
    IF msg.content.kind = "empty" \/ doc = ParseError
    THEN JsonContent([tool |-> msg.name, message |-> "Tool called"])
    ELSE IF Get(doc, "success", FALSE) = TRUE
         THEN JsonContent([success |-> TRUE, tool |-> msg.name,
                           result_count |-> Len(Get(doc, "results", <<>>)),
                           message |-> "Retrieved"])
         ELSE JsonContent([success |-> FALSE, tool |-> msg.name,
                           error |-> Get(doc, "error", "Unknown error")])

\* History returned as stored, as get_conversation_history did before tool
\* content was summarised: the variant C7 is checked against.
KeepMessagesForHistory(messages_data) == messages_data

ProcessMessagesForHistory(messages_data) ==
    [i \in 1..Len(messages_data) |->
        IF messages_data[i].type = "tool"
        THEN [messages_data[i] EXCEPT !.content = TruncatedContent(messages_data[i])]
        ELSE messages_data[i]]

DeserializeAll(messages_data) ==
    [i \in 1..Len(messages_data) |-> deserialize_message(messages_data[i])]

-----------------------------------------------------------------------------
(* The stores.  Every call names the outcome of its store accesses: Up    *)
(* when the access succeeds, not Up when the client raises (unavailable,  *)
(* timeout).                                                               *)

NoDoc == [exists |-> FALSE, messages |-> <<>>]
Doc(messages) == [exists |-> TRUE, messages |-> messages]

CacheAbsent == [kind |-> "absent"]
CacheCorrupt == [kind |-> "corrupt"]
CacheOk(messages) == [kind |-> "ok", messages |-> messages]

NoSourcesMap == [k \in {} |-> None]

\* A rewrite that serializes with the new sources_map alone: the variant C29
\* is checked against.
NewSourcesOnly(existing, new) == new

\* existing_sources.update(sources_map)
MergeSources(existing, new) ==
    [k \in DOMAIN existing \cup DOMAIN new |->
        IF k \in DOMAIN new THEN new[k] ELSE existing[k]]

\* append_messages, lines 415-432: the source references the stored assistant
\* messages carry, by message id (a later message with the same id wins).
ExistingSources(messages) ==
    LET has(i) == /\ messages[i].id # "none"
                  /\ messages[i].type = "ai"
                  /\ messages[i].refs.present
                  /\ \/ messages[i].refs.rag_source_ids # <<>>
                     \/ messages[i].refs.web_source_ids # <<>>
                     \/ messages[i].refs.image_source.present
        idx == {i \in 1..Len(messages) : has(i)}
        last(id) == CHOOSE i \in idx :
                        /\ messages[i].id = id
                        /\ \A j \in idx : messages[j].id = id => j <= i
        entry(m) == IF m.refs.image_source.present
                    THEN [rag_source_ids |-> m.refs.rag_source_ids,
                          web_source_ids |-> m.refs.web_source_ids,
                          s3key |-> m.refs.image_source.s3key,
                          slide_id |-> m.refs.image_source.slide_id,
                          page_number |-> m.refs.image_source.page_number]
                    ELSE [rag_source_ids |-> m.refs.rag_source_ids,
                          web_source_ids |-> m.refs.web_source_ids]
    IN [id \in {messages[i].id : i \in idx} |-> entry(messages[last(id)])]

\* append_messages, lines 451-453.
CapMessages(all_messages_data) ==
    IF Len(all_messages_data) > MaxStoredMessages
    THEN LastN(all_messages_data, MaxStoredMessages)
    ELSE all_messages_data

\* save_messages_with_sources, lines 361-386: the MongoDB upsert, then the
\* Redis SETEX, each in its own try block.
PrimaryAfterSave(serialized, mongoUp) ==
    IF mongoUp THEN Doc(serialized) ELSE primary

CacheAfterSave(serialized, redisUp) ==
    IF redisUp THEN CacheOk(serialized) ELSE cacheState

\* lines 414-462: what append_messages makes of the document its find_one
\* returned.
PlanFrom(doc, new_messages, sources_map) ==
    IF doc.exists
    THEN [messages |-> DeserializeAll(CapMessages(
                          doc.messages \o SerializeAll(new_messages, sources_map))),
          sources_map |-> MergeSources(ExistingSources(doc.messages), sources_map)]
    ELSE [messages |-> new_messages, sources_map |-> sources_map]

\* An append that rebuilds the thread from the history a request loads, tool
\* content summarised: the variant C30 is checked against.
AppendPlanFromHistory(new_messages, sources_map) ==
    [messages |-> DeserializeAll(ProcessMessagesForHistory(
                      LastN(primary.messages, DefaultHistoryLimit))) \o new_messages,
     sources_map |-> MergeSources(ExistingSources(primary.messages), sources_map)]

\* The (messages, sources_map) pair append_messages hands to
\* save_messages_with_sources.
AppendPlan(new_messages, sources_map) == PlanFrom(primary, new_messages, sources_map)

\* append_messages(user_id, course_id, new_messages, sources_map).  The
\* find_one of line 412 is outside every try block: when it raises, the call
\* raises and nothing is written.
append_messages(new_messages, sources_map, findUp, mongoUp, redisUp) ==
    LET plan == AppendPlan(new_messages, sources_map)
        serialized == SerializeAll(plan.messages, plan.sources_map)
    IN
    /\ primary' = IF findUp THEN PrimaryAfterSave(serialized, mongoUp) ELSE primary
    /\ cacheState' = IF findUp THEN CacheAfterSave(serialized, redisUp) ELSE cacheState
    /\ op' = [name |-> "append_messages",
              new_messages |-> new_messages,
              sources_map |-> sources_map,
              raised |-> ~findUp,
              success |-> findUp /\ mongoUp,
              primary_written |-> findUp /\ mongoUp,
              cache_written |-> findUp /\ redisUp,
              written |-> IF findUp THEN serialized ELSE <<>>]
    /\ UNCHANGED <<cacheSources, cacheImages>>

\* get_conversation_history(user_id, course_id, limit).
HistoryFromCache(limit) ==
    DeserializeAll(ProcessMessagesForHistory(LastN(cacheState.messages, limit)))

HistoryFromPrimary(limit) ==
    DeserializeAll(ProcessMessagesForHistory(LastN(primary.messages, limit)))

get_conversation_history(limit, redisUp, mongoUp) ==
    LET hit == redisUp /\ cacheState.kind = "ok" IN
    /\ op' = [name |-> "get_conversation_history",
              limit |-> limit,
              redisUp |-> redisUp,
              mongoUp |-> mongoUp,
              cache |-> IF ~redisUp THEN "unavailable" ELSE cacheState.kind,
              from |-> IF hit THEN "cache"
                       ELSE IF mongoUp /\ primary.exists THEN "primary"
                       ELSE "none",
              result |-> IF hit THEN HistoryFromCache(limit)
                         ELSE IF mongoUp /\ primary.exists
                              THEN HistoryFromPrimary(limit)
                              ELSE <<>>]
    /\ cacheState' = IF ~hit /\ mongoUp /\ primary.exists /\ redisUp
                     THEN CacheOk(LastN(primary.messages, limit))
                     ELSE cacheState
    /\ UNCHANGED <<primary, cacheSources, cacheImages>>

\* get_tool_messages(user_id, course_id, tool_message_ids): MongoDB only; a
\* stored tool message whose content does not parse is skipped.
ToolMessagesIn(messages, ids) ==
    LET idx == {i \in 1..Len(messages) :
                    /\ messages[i].type = "tool"
                    /\ messages[i].id \in ids
                    /\ Parse(messages[i].content) # ParseError}
        last(id) == CHOOSE i \in idx :
                        /\ messages[i].id = id
                        /\ \A j \in idx : messages[j].id = id => j <= i
    IN [id \in {messages[i].id : i \in idx} |->
           [tool_name |-> messages[last(id)].name,
            content |-> Parse(messages[last(id)].content),
            tool_call_id |-> messages[last(id)].tool_call_id]]

\* The keys of that dictionary in the order the loop of lines 710-721 put them
\* in: the order the messages are stored in, each id once.
ToolMessageOrder(messages, ids) ==
    LET RECURSIVE walk(_, _)
        walk(i, seen) ==
            IF i > Len(messages) THEN <<>>
            ELSE IF /\ messages[i].type = "tool"
                    /\ messages[i].id \in ids \ seen
                    /\ Parse(messages[i].content) # ParseError
                 THEN <<messages[i].id>> \o walk(i + 1, seen \cup {messages[i].id})
                 ELSE walk(i + 1, seen)
    IN walk(1, {})

get_tool_messages(ids, mongoUp) ==
    /\ op' = [name |-> "get_tool_messages",
              ids |-> ids,
              mongoUp |-> mongoUp,
              result |-> IF mongoUp /\ primary.exists
                         THEN ToolMessagesIn(primary.messages, ids)
                         ELSE ToolMessagesIn(<<>>, ids)]
    /\ UNCHANGED <<primary, cacheState, cacheSources, cacheImages>>

\* clear_conversation(user_id, course_id): delete_one in one try block, the
\* three Redis deletes in another whose failure is only logged.  deleted is
\* the number of Redis deletes that ran before one raised (3: none raised).
clear_conversation(mongoUp, deleted) ==
    /\ primary' = IF mongoUp THEN NoDoc ELSE primary
    /\ cacheState' = IF deleted >= 1 THEN CacheAbsent ELSE cacheState
    /\ cacheSources' = IF deleted >= 2 THEN NoSourcesMap ELSE cacheSources
    /\ cacheImages' = IF deleted >= 3 THEN {} ELSE cacheImages
    /\ op' = [name |-> "clear_conversation",
              mongoUp |-> mongoUp,
              deleted |-> deleted,
              success |-> mongoUp]

\* save_sources(user_id, course_id, message_id, rag_sources, web_sources):
\* messages.$.sources of the first stored message with that id, then HSET and
\* EXPIRE of the Redis hash.
SavedSources(message_id, rag_sources, web_sources) ==
    [message_id |-> message_id, rag_sources |-> rag_sources,
     web_sources |-> web_sources, timestamp |-> "ts"]

SetSourcesField(messages, message_id, data) ==
    LET idx == {i \in 1..Len(messages) : messages[i].id = message_id} IN
    IF idx = {} THEN messages
    ELSE LET first == CHOOSE i \in idx : \A j \in idx : i <= j
         IN [messages EXCEPT ![first].sources = data]

HashSet(hash, field, entry) ==
    [k \in DOMAIN hash \cup {field} |-> IF k = field THEN entry ELSE hash[k]]

save_sources(message_id, rag_sources, web_sources, mongoUp, redisUp) ==
    LET data == SavedSources(message_id, rag_sources, web_sources) IN
    /\ primary' = IF mongoUp /\ primary.exists
                  THEN Doc(SetSourcesField(primary.messages, message_id, data))
                  ELSE primary
    /\ cacheSources' = IF redisUp
                       THEN HashSet(cacheSources, message_id,
                                    [kind |-> "ok", data |-> data])
                       ELSE cacheSources
    /\ op' = [name |-> "save_sources", message_id |-> message_id,
              success |-> mongoUp,
              primary_written |-> mongoUp,
              cache_written |-> redisUp]
    /\ UNCHANGED <<cacheState, cacheImages>>

\* get_sources_for_messages(user_id, course_id, message_ids), lines 594-607:
\* the Redis pass.  A json.loads failure or a Redis error leaves the entries
\* read so far and marks every id missing.
CacheBroken(message_ids, redisUp) ==
    \/ ~redisUp
    \/ \E i \in 1..Len(message_ids) :
          /\ message_ids[i] \in DOMAIN cacheSources
          /\ cacheSources[message_ids[i]].kind = "corrupt"

SourcesFromCache(message_ids, redisUp) ==
    LET bad == {i \in 1..Len(message_ids) :
                   /\ message_ids[i] \in DOMAIN cacheSources
                   /\ cacheSources[message_ids[i]].kind = "corrupt"}
        stop == IF ~redisUp THEN 1
                ELSE IF bad = {} THEN Len(message_ids) + 1
                ELSE CHOOSE i \in bad : \A j \in bad : i <= j
        got == {message_ids[i] : i \in {j \in 1..(stop - 1) :
                                           message_ids[j] \in DOMAIN cacheSources}}
    IN [id \in got |-> cacheSources[id].data]

MissingIds(message_ids, redisUp) ==
    IF CacheBroken(message_ids, redisUp)
    THEN {message_ids[i] : i \in 1..Len(message_ids)}
    ELSE {message_ids[i] : i \in 1..Len(message_ids)} \ DOMAIN cacheSources

\* lines 610-637: the stored messages with a "sources" key among the missing.
SourcesFromPrimary(missing, mongoUp) ==
    LET messages == IF mongoUp /\ primary.exists THEN primary.messages ELSE <<>>
        idx == {i \in 1..Len(messages) :
                   messages[i].id \in missing /\ messages[i].sources # None}
        last(id) == CHOOSE i \in idx :
                        /\ messages[i].id = id
                        /\ \A j \in idx : messages[j].id = id => j <= i
    IN [id \in {messages[i].id : i \in idx} |-> messages[last(id)].sources]

get_sources_for_messages(message_ids, redisUp, mongoUp) ==
    LET cached == SourcesFromCache(message_ids, redisUp)
        missing == MissingIds(message_ids, redisUp)
        stored == SourcesFromPrimary(missing, mongoUp)
    IN
    /\ op' = [name |-> "get_sources_for_messages",
              message_ids |-> message_ids,
              redisUp |-> redisUp,
              mongoUp |-> mongoUp,
              cache_fault |-> missing # {},
              result |-> MergeSources(cached, stored)]
    /\ cacheSources' =
          IF redisUp
          THEN [k \in DOMAIN cacheSources \cup DOMAIN stored |->
                   IF k \in DOMAIN stored
                   THEN [kind |-> "ok", data |-> stored[k]]
                   ELSE cacheSources[k]]
          ELSE cacheSources
    /\ UNCHANGED <<primary, cacheState, cacheImages>>

\* get_all_sources(user_id, course_id): HGETALL of the Redis hash only; any
\* exception returns [].  The result is kept as a set (its order is by timestamp).
AllStoredSources ==
    {primary.messages[i].sources :
        i \in {j \in 1..Len(primary.messages) : primary.messages[j].sources # None}}

get_all_sources(redisUp) ==
    LET broken == \/ ~redisUp
                  \/ \E k \in DOMAIN cacheSources : cacheSources[k].kind = "corrupt"
    IN
    /\ op' = [name |-> "get_all_sources",
              redisUp |-> redisUp,
              cache_fault |-> broken \/ DOMAIN cacheSources = {},
              result |-> IF broken THEN {}
                         ELSE {cacheSources[k].data : k \in DOMAIN cacheSources},
              stored |-> AllStoredSources]
    /\ UNCHANGED <<primary, cacheState, cacheSources, cacheImages>>

\* save_image(user_id, course_id, message_id, image): Redis hash only.
save_image(message_id, redisUp) ==
    /\ cacheImages' = IF redisUp THEN cacheImages \cup {message_id} ELSE cacheImages
    /\ op' = [name |-> "save_image", message_id |-> message_id, success |-> redisUp]
    /\ UNCHANGED <<primary, cacheState, cacheSources>>

(* The cache's own behaviour: a key expires (TTL) or its value is damaged. *)

CacheExpire(key) ==
    /\ IF key = "state" THEN cacheState.kind # "absent"
       ELSE IF key = "sources" THEN DOMAIN cacheSources # {}
       ELSE cacheImages # {}
    /\ cacheState' = IF key = "state" THEN CacheAbsent ELSE cacheState
    /\ cacheSources' = IF key = "sources" THEN NoSourcesMap ELSE cacheSources
    /\ cacheImages' = IF key = "images" THEN {} ELSE cacheImages
    /\ op' = [name |-> "cache_expire", key |-> key]
    /\ UNCHANGED primary

\* key is "state" for the agent_state key, else a field of the sources hash.
CacheDamage(key) ==
    /\ IF key = "state" THEN cacheState.kind = "ok"
       ELSE key \in DOMAIN cacheSources /\ cacheSources[key].kind = "ok"
    /\ cacheState' = IF key = "state" THEN CacheCorrupt ELSE cacheState
    /\ cacheSources' = IF key \in DOMAIN cacheSources
                       THEN [cacheSources EXCEPT ![key] = [kind |-> "corrupt"]]
                       ELSE cacheSources
    /\ op' = [name |-> "cache_damage", key |-> key]
    /\ UNCHANGED <<primary, cacheImages>>

-----------------------------------------------------------------------------
(* The state-manager specification: every State Manager call, on one      *)
(* thread, with every outcome of its store accesses, and the cache's own   *)
(* expiry and damage.                                                      *)

AssistantMsg(id) ==
    RunMsg("AIMessage", id, TextContent("answer"), "none", <<>>, "none")
RagToolMsg(id) ==
    RunMsg("ToolMessage", id,
           JsonContent(ToolOk(<<Source("1", "c1"), Source("2", "c2")>>)),
           "rag_search_tool", <<>>, "call_rag")
FailedToolMsg(id) ==
    RunMsg("ToolMessage", id, JsonContent(ToolFail("boom")),
           "web_search_tool", <<>>, "call_web")
\* ToolNode's own error text for a call it could not run.
RawToolMsg(id) ==
    RunMsg("ToolMessage", id, RawContent("Error"), "rag_search_tool", <<>>, "call_x")

\* The batches the message-path specification appends.
AppendMenu ==
    {<<RagToolMsg("t1")>>, <<FailedToolMsg("t2")>>, <<RawToolMsg("t3")>>}

\* The batches the sources-path specification appends.
AssistantMenu == {<<AssistantMsg("a1")>>}

SourcesA == [rag_source_ids |-> <<"t1">>, web_source_ids |-> <<>>, timestamp |-> "ts"]

SourcesMapMenu == {NoSourcesMap, [k \in {"a1"} |-> SourcesA]}

HistoryLimits == {1, DefaultHistoryLimit}

IdleOp == [name |-> "init"]

NoRequest == [search_type |-> "none", snapshot |-> None, asked |-> "none", sent |-> None]
NoFinal == [present |-> FALSE]
NoResponse == [present |-> FALSE]

AgentIdle ==
    /\ request = NoRequest
    /\ pc = "idle"
    /\ visits = 0
    /\ graphMessages = <<>>
    /\ history = <<>>
    /\ rag_counter = 0
    /\ web_counter = 0
    /\ final = NoFinal
    /\ response = NoResponse
    /\ toolLog = <<>>
    /\ nextId = 0

NoMarkdown == [sections |-> <<>>, pages |-> <<>>, course_id |-> "none",
               slide_id |-> "none"]
NoValidation == [done |-> FALSE]
NoRetrieval == [done |-> FALSE]

RagIdle ==
    /\ markdown = NoMarkdown
    /\ chunks = <<>>
    /\ validation = NoValidation
    /\ retrieval = NoRetrieval

\* No chunk stored and no call made on the collection.
StoreIdle ==
    /\ collection = {}
    /\ storeLog = <<>>

\* No thread stored, no request and no chunking or retrieval under way.
StateIdle ==
    /\ primary = NoDoc
    /\ cacheState = CacheAbsent
    /\ cacheSources = NoSourcesMap
    /\ cacheImages = {}
    /\ op = IdleOp
    /\ AgentIdle
    /\ RagIdle

Init ==
    /\ StateIdle
    /\ StoreIdle

AppendFrom(menu, maps) ==
    \E new \in menu, smap \in maps,
       findUp \in BOOLEAN, mongoUp \in BOOLEAN, redisUp \in BOOLEAN :
        /\ Len(primary.messages) + Len(new) <= MaxThreadLen
        /\ append_messages(new, smap, findUp, mongoUp, redisUp)
        /\ UNCHANGED <<agentVars, ragVars, storeVars>>

AppendMessages == AppendFrom(AppendMenu, {NoSourcesMap})

AppendAssistant == AppendFrom(AssistantMenu, SourcesMapMenu)

GetConversationHistory ==
    \E limit \in HistoryLimits, redisUp \in BOOLEAN, mongoUp \in BOOLEAN :
        /\ get_conversation_history(limit, redisUp, mongoUp)
        /\ UNCHANGED <<agentVars, ragVars, storeVars>>

GetToolMessages ==
    \E ids \in {{"t1"}, {"t3"}, {"t1", "t2", "t3"}}, mongoUp \in BOOLEAN :
        /\ get_tool_messages(ids, mongoUp)
        /\ UNCHANGED <<agentVars, ragVars, storeVars>>

ClearConversation ==
    \E mongoUp \in BOOLEAN, deleted \in 0..3 :
        /\ clear_conversation(mongoUp, deleted)
        /\ UNCHANGED <<agentVars, ragVars, storeVars>>

SaveSources ==
    \E mongoUp \in BOOLEAN, redisUp \in BOOLEAN :
        /\ save_sources("a1", <<Source("1", "c1")>>, <<>>, mongoUp, redisUp)
        /\ UNCHANGED <<agentVars, ragVars, storeVars>>

GetSourcesForMessages ==
    \E redisUp \in BOOLEAN, mongoUp \in BOOLEAN :
        /\ get_sources_for_messages(<<"a1">>, redisUp, mongoUp)
        /\ UNCHANGED <<agentVars, ragVars, storeVars>>

GetAllSources ==
    \E redisUp \in BOOLEAN :
        /\ get_all_sources(redisUp)
        /\ UNCHANGED <<agentVars, ragVars, storeVars>>

SaveImage ==
    \E redisUp \in BOOLEAN :
        /\ save_image("a1", redisUp)
        /\ UNCHANGED <<agentVars, ragVars, storeVars>>

CacheStateExpires == CacheExpire("state") /\ UNCHANGED <<agentVars, ragVars, storeVars>>

CacheStateDamaged == CacheDamage("state") /\ UNCHANGED <<agentVars, ragVars, storeVars>>

CacheSourcesExpire == CacheExpire("sources") /\ UNCHANGED <<agentVars, ragVars, storeVars>>

CacheImagesExpire == CacheExpire("images") /\ UNCHANGED <<agentVars, ragVars, storeVars>>

CacheSourcesDamaged == CacheDamage("a1") /\ UNCHANGED <<agentVars, ragVars, storeVars>>

\* The message path: the thread's messages in the primary store and in the
\* agent_state cache key.
Next ==
    \/ AppendMessages
    \/ GetConversationHistory
    \/ GetToolMessages
    \/ ClearConversation
    \/ CacheStateExpires
    \/ CacheStateDamaged

Spec == Init /\ [][Next]_vars

\* The sources path: an assistant message's sources in the primary store and in
\* the agent_sources and agent_images hashes, beside the message path's keys.
SourcesNext ==
    \/ AppendAssistant
    \/ SaveSources
    \/ GetSourcesForMessages
    \/ GetAllSources
    \/ SaveImage
    \/ GetConversationHistory
    \/ ClearConversation
    \/ CacheStateExpires
    \/ CacheSourcesExpire
    \/ CacheImagesExpire
    \/ CacheSourcesDamaged

SourcesSpec == Init /\ [][SourcesNext]_vars

-----------------------------------------------------------------------------
(* The capping specification: append_messages alone, with both stores     *)
(* answering, on messages numbered in the order they are appended.        *)

agentRest == <<request, pc, visits, graphMessages, history, rag_counter,
               web_counter, final, response, toolLog>>

NumberedMsg(k) ==
    RunMsg("AIMessage", "m" \o ToString(k), TextContent("answer"), "none",
           <<>>, "none")

\* The sizes of the batches one call appends.
BatchSizes == {1, 7, MaxStoredMessages + 1}

AppendBatch ==
    \E n \in BatchSizes :
        /\ nextId + n <= MaxAppended
        /\ append_messages([i \in 1..n |-> NumberedMsg(nextId + i)],
                           NoSourcesMap, TRUE, TRUE, TRUE)
        /\ nextId' = nextId + n
        /\ UNCHANGED <<agentRest, ragVars, storeVars>>

CapNext == AppendBatch

CapSpec == Init /\ [][CapNext]_vars

-----------------------------------------------------------------------------
(* The rewriting specification: append_messages alone, on assistant        *)
(* messages of two ids and sources_map arguments that name one of them,   *)
(* both or none.                                                           *)

SourcesImage ==
    [rag_source_ids |-> <<>>, web_source_ids |-> <<"t2">>, timestamp |-> "ts",
     s3key |-> "k1", slide_id |-> "s1", page_number |-> "4"]

\* An entry with no source at all.
SourcesEmpty == [rag_source_ids |-> <<>>, web_source_ids |-> <<>>, timestamp |-> "ts"]

RewriteMenu == {<<AssistantMsg("a1")>>, <<AssistantMsg("a2")>>}

RewriteMaps ==
    {NoSourcesMap,
     [k \in {"a1"} |-> SourcesA],
     [k \in {"a1"} |-> SourcesImage],
     [k \in {"a1"} |-> SourcesEmpty],
     [k \in {"a2"} |-> SourcesImage],
     [k \in {"a1", "a2"} |-> IF k = "a1" THEN SourcesImage ELSE SourcesA]}

\* The cache accepts every write; the primary store's read and write fail or
\* not.
AppendRewrite ==
    \E new \in RewriteMenu, smap \in RewriteMaps,
       findUp \in BOOLEAN, mongoUp \in BOOLEAN :
        /\ Len(primary.messages) + Len(new) <= MaxThreadLen
        /\ append_messages(new, smap, findUp, mongoUp, TRUE)
        /\ UNCHANGED <<agentVars, ragVars, storeVars>>

RewriteNext == AppendRewrite

RewriteSpec == Init /\ [][RewriteNext]_vars

-----------------------------------------------------------------------------
(* The concurrent-append specification: the append_messages calls of       *)
(* requests on one thread, served by one server process or by two.  The    *)
(* pymongo and redis calls are synchronous and append_messages awaits      *)
(* nothing that suspends, so within one process (one event loop) a call    *)
(* runs from its find_one to its SETEX before another call starts; calls  *)
(* of two processes meet at the stores, between one's find_one and its     *)
(* update_one.                                                             *)

Processes == {1, 2}
Callers == {1, 2}

NoCall == [pc |-> "none"]
NoCalls == [name |-> "appends", calls |-> [c \in Callers |-> NoCall], completed |-> {}]

CallsOf(o) == IF o.name = "appends" THEN o.calls ELSE NoCalls.calls
CompletedOf(o) == IF o.name = "appends" THEN o.completed ELSE {}

\* A request has run its graph and calls append_messages with its message.
AppendCalled(c) ==
    \E p \in Processes :
        /\ op.name \in {"init", "appends"}
        /\ nextId < MaxThreadLen
        /\ CallsOf(op)[c].pc = "none"
        /\ op' = [name |-> "appends",
                  calls |-> [CallsOf(op) EXCEPT ![c] =
                                [pc |-> "called", process |-> p,
                                 new_messages |-> <<NumberedMsg(nextId + 1)>>]],
                  completed |-> CompletedOf(op)]
        /\ nextId' = nextId + 1
        /\ UNCHANGED <<primary, cacheState, cacheSources, cacheImages, agentRest,
                       ragVars, storeVars>>

\* line 412: doc = self.mongo_collection.find_one(...).  A call starts when
\* no call of its process is between its find_one and its writes.
FindOne(c) ==
    /\ op.name = "appends"
    /\ op.calls[c].pc = "called"
    /\ \A d \in Callers \ {c} :
          op.calls[d].pc = "found" => op.calls[d].process # op.calls[c].process
    /\ op' = [op EXCEPT !.calls[c] =
                 [pc |-> "found", process |-> op.calls[c].process,
                  new_messages |-> op.calls[c].new_messages, doc |-> primary]]
    /\ UNCHANGED <<primary, cacheState, cacheSources, cacheImages, agentVars,
                   ragVars, storeVars>>

\* lines 414-462 and save_messages_with_sources: the whole list built from
\* the document read is $set on the thread's document and SETEX on its key.
\* completed holds the ids of the calls that returned True.
SaveMerged(c) ==
    \E mongoUp \in BOOLEAN, redisUp \in BOOLEAN :
        /\ op.name = "appends"
        /\ op.calls[c].pc = "found"
        /\ LET plan == PlanFrom(op.calls[c].doc, op.calls[c].new_messages,
                                NoSourcesMap)
               serialized == SerializeAll(plan.messages, plan.sources_map)
           IN /\ primary' = PrimaryAfterSave(serialized, mongoUp)
              /\ cacheState' = CacheAfterSave(serialized, redisUp)
        /\ op' = [op EXCEPT !.calls[c] = NoCall,
                            !.completed =
                                IF mongoUp
                                THEN @ \cup {op.calls[c].new_messages[1].id}
                                ELSE @]
        /\ UNCHANGED <<cacheSources, cacheImages, agentVars, ragVars, storeVars>>

RaceNext ==
    \E c \in Callers :
        \/ AppendCalled(c)
        \/ FindOne(c)
        \/ SaveMerged(c)

RaceSpec == Init /\ [][RaceNext]_vars

-----------------------------------------------------------------------------
(* The agent: process_query and the graph it runs,                        *)
(* agent -> tools -> agent ... -> format_response -> END.                 *)

SearchTypes == {"DEFAULT", "RAG", "WEB", "RAG_WEB"}

ToolNames == {"rag_search_tool", "web_search_tool", "retrieve_previous_sources"}

\* A tools node built with every tool whatever the search type: the variant
\* C3 is checked against.
AllTools(search_type) == ToolNames

\* _get_tools_for_search_type(search_type), as a set of tool names.
\* _build_graph has set retrieve_previous_sources_tool before it is called.
ToolsFor(search_type) ==
    (CASE search_type = "RAG" -> {"rag_search_tool"}
       [] search_type = "WEB" -> {"web_search_tool"}
       [] search_type = "RAG_WEB" -> {"rag_search_tool", "web_search_tool"}
       [] OTHER -> {})
    \cup {"retrieve_previous_sources"}

\* What a search tool returns for n hits: it numbers its own results from 1.
RawResults(n) == [i \in 1..n |-> Source(ToString(i), "c" \o ToString(i))]

\* A tools node that leaves each tool's own ids: the variant C1 is checked
\* against.
KeepToolIds(results, counter) == results

\* custom_tool_node, lines 167-170 and 175-178: the results of one message
\* take the ids counter+1, counter+2, ...
Renumber(results, counter) ==
    [i \in 1..Len(results) |-> [results[i] EXCEPT !.id = ToString(counter + i)]]

\* The results a message adds to the counter of the tool named kind.
Gain(msg, kind) ==
    LET doc == Parse(msg.content) IN
    IF doc # ParseError /\ msg.name = kind /\ Get(doc, "success", FALSE) = TRUE
    THEN Len(Get(doc, "results", <<>>)) ELSE 0

\* The counter after the first k messages of msgs have been processed.
RECURSIVE CounterAfter(_, _, _, _)
CounterAfter(msgs, kind, k, start) ==
    IF k = 0 THEN start
    ELSE CounterAfter(msgs, kind, k - 1, start) + Gain(msgs[k], kind)

\* lines 159-185 for one message: msg.content = json.dumps(tool_result).
RenumberMessage(msg, rag_c, web_c) ==
    LET doc == Parse(msg.content) IN
    IF doc = ParseError THEN msg
    ELSE IF Gain(msg, "rag_search_tool") > 0
         THEN [msg EXCEPT !.content =
                  JsonContent([doc EXCEPT !.results = Renumber(doc.results, rag_c)])]
    ELSE IF Gain(msg, "web_search_tool") > 0
         THEN [msg EXCEPT !.content =
                  JsonContent([doc EXCEPT !.results = Renumber(doc.results, web_c)])]
    ELSE msg

\* A retrieve_previous_sources that returns the sources as they are stored:
\* the variant C26 is checked against (Untagged).
\* retrieve_previous_sources(tool_message_ids): the results of the successful
\* rag_search_tool / web_search_tool messages get_tool_messages returned, each
\* with the id of its tool message.  ids lists the keys of the dictionary in
\* the order tool_messages.items() yields them.
Untagged(source, tool_msg_id) == source

Tagged(source, tool_msg_id) ==
    [k \in DOMAIN source \cup {"from_tool_message"} |->
        IF k = "from_tool_message" THEN tool_msg_id ELSE source[k]]

RECURSIVE Flatten(_, _, _)
Flatten(tool_messages, ids, tool_name) ==
    IF ids = <<>> THEN <<>>
    ELSE LET id == Head(ids)
             found == /\ id \in DOMAIN tool_messages
                      /\ Get(tool_messages[id].content, "success", FALSE) = TRUE
                      /\ tool_messages[id].tool_name = tool_name
             results == IF found
                        THEN Get(tool_messages[id].content, "results", <<>>)
                        ELSE <<>>
         IN [i \in 1..Len(results) |-> Tagged(results[i], id)]
            \o Flatten(tool_messages, Tail(ids), tool_name)

\* The except branch of retrieve_previous_sources.
RetrieveFail(err) ==
    [success |-> FALSE, error |-> err, results |-> <<>>,
     rag_sources |-> <<>>, web_sources |-> <<>>, image_analyses |-> <<>>]

RetrievePreviousSources(tool_message_ids) ==
    LET ids == {tool_message_ids[i] : i \in 1..Len(tool_message_ids)}
        stored == IF primary.exists THEN primary.messages ELSE <<>>
        tool_messages == ToolMessagesIn(stored, ids)
        items == ToolMessageOrder(stored, ids)
        all_rag_sources == Flatten(tool_messages, items, "rag_search_tool")
        all_web_sources == Flatten(tool_messages, items, "web_search_tool")
    IN [success |-> TRUE,
        results |-> all_rag_sources \o all_web_sources,
        rag_sources |-> all_rag_sources,
        web_sources |-> all_web_sources,
        image_analyses |-> <<>>,
        tool_message_count |-> Cardinality(DOMAIN tool_messages)]

\* The tool message ids the LLM passes to retrieve_previous_sources: the
\* search of the earlier turn.
AskedPrevious == <<"t0">>

\* One entry of an AIMessage's tool_calls; tool_message_ids is the argument
\* of a call to retrieve_previous_sources.
ToolCall(name, id, tool_message_ids) ==
    [name |-> name, id |-> id,
     tool_message_ids |-> IF name = "retrieve_previous_sources"
                          THEN tool_message_ids ELSE <<>>]

\* ToolNode's message for one call: its own error text for a tool it was not
\* built with, else the JSON of what the tool returned.  outcome is the number
\* of hits of a search (0 for retrieve_previous_sources), -1 when an exception
\* was raised inside the tool.
ToolNodeMessage(call, allowed, outcome, id) ==
    RunMsg("ToolMessage", id,
           IF call.name \notin allowed THEN RawContent("not a valid tool")
           ELSE IF call.name = "retrieve_previous_sources"
                THEN (IF outcome < 0 THEN JsonContent(RetrieveFail("boom"))
                      ELSE JsonContent(RetrievePreviousSources(call.tool_message_ids)))
           ELSE IF outcome < 0 THEN JsonContent(ToolFail("boom"))
           ELSE JsonContent(ToolOk(RawResults(outcome))),
           call.name, <<>>, call.id)

\* custom_tool_node(state, config).
custom_tool_node(calls, allowed, outcomes) ==
    LET base == [i \in 1..Len(calls) |->
                    ToolNodeMessage(calls[i], allowed, outcomes[i],
                                    "m" \o ToString(nextId + i))]
        ragAt(i) == CounterAfter(base, "rag_search_tool", i - 1, rag_counter)
        webAt(i) == CounterAfter(base, "web_search_tool", i - 1, web_counter)
    IN [messages |-> [i \in 1..Len(base) |->
                         RenumberMessage(base[i], ragAt(i), webAt(i))],
        rag_counter |-> CounterAfter(base, "rag_search_tool", Len(base), rag_counter),
        web_counter |-> CounterAfter(base, "web_search_tool", Len(base), web_counter)]

\* _format_response_node(state, config).
MaxOf(S) == CHOOSE x \in S : \A y \in S : y <= x

\* A format_response that reads every tool message of the state, those of the
\* history included: the variant C33 is checked against.
AllSourceMessages(messages, kind) ==
    SelectSeq(messages,
              LAMBDA m : m.cls = "ToolMessage"
                         /\ Parse(m.content) # ParseError
                         /\ m.name = kind
                         /\ Get(Parse(m.content), "success", FALSE) = TRUE)

\* The tool messages format_response reads results from: those from the last
\* human message before the final AI message on, with content that parses,
\* named kind and successful.
SourceMessages(messages, kind) ==
    LET ai == {i \in 1..Len(messages) : messages[i].cls = "AIMessage"}
        final_ai == IF ai = {} THEN 0 ELSE MaxOf(ai)
        human == {i \in 1..(final_ai - 1) : messages[i].cls = "HumanMessage"}
        start == IF human = {} THEN 1 ELSE MaxOf(human)
    IN SelectSeq(SubSeq(messages, start, Len(messages)),
                 LAMBDA m : m.cls = "ToolMessage"
                            /\ Parse(m.content) # ParseError
                            /\ m.name = kind
                            /\ Get(Parse(m.content), "success", FALSE) = TRUE)

RECURSIVE ResultsOf(_)
ResultsOf(msgs) ==
    IF msgs = <<>> THEN <<>>
    ELSE Get(Parse(Head(msgs).content), "results", <<>>) \o ResultsOf(Tail(msgs))

MessageIds(msgs) == [i \in 1..Len(msgs) |-> msgs[i].id]

ImageSources(snapshot) ==
    IF snapshot = None THEN <<>>
    ELSE <<[id |-> "page", type |-> "current", message_id |-> "none", timestamp |-> "ts",
            slide_id |-> snapshot.slide_id, page_number |-> snapshot.page_number]>>

SourcesData(message_id, rag_source_ids, web_source_ids, snapshot) ==
    IF message_id = "none"
       \/ (rag_source_ids = <<>> /\ web_source_ids = <<>> /\ snapshot = None)
    THEN NoSourcesMap
    ELSE [k \in {message_id} |->
            IF snapshot = None
            THEN [rag_source_ids |-> rag_source_ids,
                  web_source_ids |-> web_source_ids, timestamp |-> "ts"]
            ELSE [rag_source_ids |-> rag_source_ids,
                  web_source_ids |-> web_source_ids, timestamp |-> "ts",
                  s3key |-> snapshot.s3key, slide_id |-> snapshot.slide_id,
                  page_number |-> snapshot.page_number]]

format_response(messages, snapshot) ==
    LET ai == {i \in 1..Len(messages) : messages[i].cls = "AIMessage"}
        rag == SourceMessages(messages, "rag_search_tool")
        web == SourceMessages(messages, "web_search_tool")
    IN [present |-> TRUE,
        final_response |-> IF ai = {} THEN TextContent("")
                           ELSE messages[MaxOf(ai)].content,
        rag_sources |-> ResultsOf(rag),
        web_sources |-> ResultsOf(web),
        image_sources |-> ImageSources(snapshot),
        sources_map |-> SourcesData(IF ai = {} THEN "none" ELSE messages[MaxOf(ai)].id,
                                    MessageIds(rag), MessageIds(web), snapshot)]

\* AgentResponse, from the final state (lines 581-586) and from the except
\* branch (lines 590-595).
AgentResponse(state) ==
    [present |-> TRUE, response |-> state.final_response,
     rag_sources |-> state.rag_sources, web_sources |-> state.web_sources,
     image_sources |-> state.image_sources]

\* An except branch that answers with the sources of the earlier turn: the
\* variant C12 is checked against.
ErrorWithSources(e) ==
    [present |-> TRUE,
     response |-> TextContent("I encountered an error processing your request: " \o e),
     rag_sources |-> RawResults(1), web_sources |-> <<>>, image_sources |-> <<>>]

ErrorResponse(e) ==
    [present |-> TRUE,
     response |-> TextContent("I encountered an error processing your request: " \o e),
     rag_sources |-> <<>>, web_sources |-> <<>>, image_sources |-> <<>>]

\* str(e) of the exceptions process_query catches.
LLMError == "llm call failed"
AppendError == "find_one failed"
GraphRecursionError == "recursion limit of 10 reached"

(* process_query, one request on a thread that holds one earlier turn. *)

\* The snapshot a request carries: SnapshotData of outbound_pipeline.py.
SentSnapshot == [slide_id |-> "s1", page_number |-> "4", s3key |-> "k1"]

\* snapshot_data of lines 512-526: None when no snapshot was sent or
\* generate_presigned_url returned None for it (presigned_url = "none").
SnapshotData(snapshot, presigned_url) ==
    IF snapshot = None \/ presigned_url = "none" THEN None
    ELSE [slide_id |-> snapshot.slide_id, page_number |-> snapshot.page_number,
          s3key |-> snapshot.s3key, presigned_url |-> presigned_url]

Snapshot == SnapshotData(SentSnapshot, "url")

\* imageSources of ChatResponseDTO, outbound_pipeline.py lines 113-120.
ChatImageSources(image_sources) ==
    [i \in 1..Len(image_sources) |->
        [id |-> image_sources[i].id, type |-> image_sources[i].type,
         messageId |-> image_sources[i].message_id,
         timestamp |-> image_sources[i].timestamp,
         slideId |-> image_sources[i].slide_id,
         pageNumber |-> image_sources[i].page_number]]

\* OutboundRequest as the backend sends it: every search type without a
\* snapshot, one request with a snapshot, one search type in lower case and
\* one that does not exist.
Requests ==
    [search_type : SearchTypes \cup {"default", "SEMANTIC"}, snapshot : {None}]
    \cup {[search_type |-> "RAG_WEB", snapshot |-> SentSnapshot]}

\* str.upper() on the search types the requests carry.
Upper(search_type) == IF search_type = "default" THEN "DEFAULT" ELSE search_type

\* process_outbound_pipeline, lines 89-96, and process_agent_query, lines
\* 614-618: the search type process_query is called with.
ValidSearchType(search_type) ==
    IF Upper(search_type) \in SearchTypes THEN Upper(search_type) ELSE "DEFAULT"

\* lines 538-546.
UserMessage(snapshot, id) ==
    RunMsg("HumanMessage", id,
           IF snapshot # None THEN MultimodalContent("q", snapshot.presigned_url)
           ELSE TextContent("q"),
           "none", <<>>, "none")

\* The earlier turn: a question, a search, its two results, the answer.
PriorTurn ==
    <<RunMsg("HumanMessage", "u0", TextContent("q0"), "none", <<>>, "none"),
      RunMsg("AIMessage", "a0", EmptyContent, "none",
             <<ToolCall("rag_search_tool", "a0_1", <<>>)>>, "none"),
      RunMsg("ToolMessage", "t0", JsonContent(ToolOk(RawResults(2))),
             "rag_search_tool", <<>>, "a0_1"),
      RunMsg("AIMessage", "a0f", TextContent("answer"), "none", <<>>, "none")>>

PriorThread ==
    SerializeAll(PriorTurn,
                 [k \in {"a0f"} |-> [rag_source_ids |-> <<"t0">>,
                                     web_source_ids |-> <<>>, timestamp |-> "ts"]])

AgentInit ==
    /\ primary = Doc(PriorThread)
    /\ cacheState = CacheOk(PriorThread)
    /\ cacheSources = NoSourcesMap
    /\ cacheImages = {}
    /\ op = IdleOp
    /\ AgentIdle
    /\ RagIdle
    /\ StoreIdle

\* The tool names the LLM puts in one response's tool_calls.  The LLM is not
\* held to the tools it was bound with.
ToolCallMenu ==
    {<<"rag_search_tool">>, <<"web_search_tool">>, <<"retrieve_previous_sources">>,
     <<"unknown_tool">>, <<"rag_search_tool", "web_search_tool">>}

Executed(log) == Cardinality({i \in 1..Len(log) : log[i].executed})

Runnable(names, allowed) ==
    Cardinality({i \in 1..Len(names) : names[i] \in allowed})

\* The graph run without its config, under LangGraph's default limit of 25:
\* the variant C2 is checked against.
LimitOf25(n) == n >= 25

\* graph.ainvoke: a node runs only while fewer than recursion_limit nodes have.
LimitReached(n) == n >= RecursionLimit

\* lines 510-563, with both stores answering the history read; the URL of a
\* snapshot is presigned or not.
StartRequest ==
    \E req \in Requests, presigned_url \in {"url", "none"} :
        /\ pc = "idle"
        /\ get_conversation_history(DefaultHistoryLimit, TRUE, TRUE)
        /\ request' = [search_type |-> ValidSearchType(req.search_type),
                        snapshot |-> SnapshotData(req.snapshot, presigned_url),
                        asked |-> req.search_type,
                        sent |-> req.snapshot]
        /\ history' = op'.result
        /\ graphMessages' =
              op'.result \o <<UserMessage(SnapshotData(req.snapshot, presigned_url),
                                           "m" \o ToString(nextId + 1))>>
        /\ nextId' = nextId + 1
        /\ pc' = "agent"
        /\ visits' = 0
        /\ rag_counter' = 0
        /\ web_counter' = 0
        /\ UNCHANGED <<ragVars, storeVars, final, response, toolLog>>

\* A graph whose agent node is always followed by the tools node: the variant
\* C31 is checked against.
AlwaysTools(tool_calls) == "tools"

\* _build_graph, lines 221-228: tools_condition on the tool calls of the last
\* message, END mapped to format_response.
tools_condition(tool_calls) ==
    IF tool_calls # <<>> THEN "tools" ELSE "format_response"

\* _agent_node and tools_condition: the LLM answers, or asks for tools.
AgentNode ==
    /\ pc = "agent"
    /\ ~LimitReached(visits)
    /\ \E names \in ToolCallMenu \cup {<<>>} :
          /\ Executed(toolLog) + Runnable(names, ToolsFor(request.search_type))
                <= MaxToolCalls
          /\ LET id == "m" \o ToString(nextId + 1)
                 calls == [i \in 1..Len(names) |->
                              ToolCall(names[i], id \o "_" \o ToString(i),
                                       AskedPrevious)]
             IN graphMessages' =
                   Append(graphMessages,
                          RunMsg("AIMessage", id,
                                 IF names = <<>> THEN TextContent("answer")
                                 ELSE EmptyContent,
                                 "none", calls, "none"))
          /\ pc' = tools_condition(names)
    /\ visits' = visits + 1
    /\ nextId' = nextId + 1
    /\ UNCHANGED <<ragVars, storeVars, smVars, request, history, rag_counter, web_counter, final,
                   response, toolLog>>

\* A request that appends what the graph had emitted when it was stopped: the
\* variant C34 is checked against.
SavePartial(stored, messages) ==
    Doc(stored.messages \o SerializeAll(messages, NoSourcesMap))

\* lines 565-595: append_messages is called after graph.ainvoke has returned;
\* an exception of the graph ends in the except branch, which answers and
\* writes nothing.
ThreadAfterAbort(stored, messages) == stored

\* The LLM call raises: process_query's except branch answers.
AgentNodeRaises ==
    /\ pc = "agent"
    /\ ~LimitReached(visits)
    /\ pc' = "failed"
    /\ response' = ErrorResponse(LLMError)
    /\ visits' = visits + 1
    /\ primary' = ThreadAfterAbort(primary, graphMessages)
    /\ UNCHANGED <<ragVars, storeVars, cacheState, cacheSources, cacheImages, op, request,
                   graphMessages, history, rag_counter, web_counter, final, toolLog,
                   nextId>>

\* The tools node.  outcomes[i] is the number of hits of search i (0 for a
\* retrieve_previous_sources that returns), -1 when the tool's try block
\* raised; it is -1 for every call the node does not run.
ToolsNode ==
    /\ pc = "tools"
    /\ ~LimitReached(visits)
    /\ LET calls == graphMessages[Len(graphMessages)].tool_calls
           allowed == ToolsFor(request.search_type)
           searches == allowed \cap {"rag_search_tool", "web_search_tool"}
       IN \E outcomes \in [1..Len(calls) -> -1..MaxResults] :
             /\ \A i \in 1..Len(calls) :
                   /\ calls[i].name \notin allowed => outcomes[i] = -1
                   /\ calls[i].name \notin searches => outcomes[i] <= 0
             /\ LET out == custom_tool_node(calls, allowed, outcomes) IN
                   /\ graphMessages' = graphMessages \o out.messages
                   /\ rag_counter' = out.rag_counter
                   /\ web_counter' = out.web_counter
                   /\ toolLog' = toolLog \o
                         [i \in 1..Len(calls) |->
                             [name |-> calls[i].name,
                              executed |-> calls[i].name \in allowed,
                              raised |-> calls[i].name \in allowed
                                         /\ outcomes[i] < 0,
                              message_id |-> out.messages[i].id]]
             /\ IF \E i \in 1..Len(calls) :
                      calls[i].name = "retrieve_previous_sources"
                      /\ calls[i].name \in allowed
                THEN get_tool_messages({AskedPrevious[i] : i \in 1..Len(AskedPrevious)},
                                       TRUE)
                ELSE UNCHANGED smVars
             /\ nextId' = nextId + Len(calls)
    /\ pc' = "agent"
    /\ visits' = visits + 1
    /\ UNCHANGED <<ragVars, storeVars, request, history, final, response>>

FormatResponseNode ==
    /\ pc = "format_response"
    /\ ~LimitReached(visits)
    /\ final' = format_response(graphMessages, request.snapshot)
    /\ pc' = "end"
    /\ visits' = visits + 1
    /\ UNCHANGED <<ragVars, storeVars, smVars, request, graphMessages, history, rag_counter,
                   web_counter, response, toolLog, nextId>>

\* A request that appends every message of the final state: the variant C27
\* is checked against.
AllMessages(messages, hist) == messages

\* line 576: [msg for msg in final_state["messages"] if msg not in history].
NewMessages(messages, hist) ==
    SelectSeq(messages, LAMBDA m : \A i \in 1..Len(hist) : hist[i] # m)

\* lines 573-586: the messages of this request are appended and the response
\* is built; when append_messages raises, the except branch answers.  Both
\* stores accept the write (Spec explores the writes they refuse).
Persist ==
    /\ pc = "end"
    /\ \E findUp \in BOOLEAN :
          /\ append_messages(NewMessages(graphMessages, history),
                             final.sources_map, findUp, TRUE, TRUE)
          /\ response' = IF findUp THEN AgentResponse(final)
                          ELSE ErrorResponse(AppendError)
          /\ pc' = IF findUp THEN "done" ELSE "failed"
    /\ UNCHANGED <<ragVars, storeVars, request, visits, graphMessages, history, rag_counter,
                   web_counter, final, toolLog, nextId>>

\* GraphRecursionError: recursion_limit nodes have run and the graph has a
\* node left to run; it is also raised, by the releases that test the limit
\* before they look for the next node, when the last of them ended the run.
\* The except branch answers; nothing is appended.
RecursionError ==
    /\ pc \in {"agent", "tools", "format_response", "end"}
    /\ LimitReached(visits)
    /\ pc' = "failed"
    /\ response' = ErrorResponse(GraphRecursionError)
    /\ primary' = ThreadAfterAbort(primary, graphMessages)
    /\ UNCHANGED <<ragVars, storeVars, cacheState, cacheSources, cacheImages, op, request,
                   visits, graphMessages, history, rag_counter, web_counter, final,
                   toolLog, nextId>>

\* The task that runs process_query is cancelled while graph.ainvoke awaits
\* (the LLM, a tool): CancelledError is no Exception, the except branch does
\* not catch it, process_query ends without a response and its graph state
\* is gone with it.
Cancelled ==
    /\ pc \in {"agent", "tools", "format_response"}
    /\ pc' = "cancelled"
    /\ primary' = ThreadAfterAbort(primary, graphMessages)
    /\ graphMessages' = <<>>
    /\ history' = <<>>
    /\ visits' = 0
    /\ rag_counter' = 0
    /\ web_counter' = 0
    /\ final' = NoFinal
    /\ toolLog' = <<>>
    /\ UNCHANGED <<ragVars, storeVars, cacheState, cacheSources, cacheImages, op, request,
                   response, nextId>>

AgentNext ==
    \/ StartRequest
    \/ AgentNode
    \/ AgentNodeRaises
    \/ ToolsNode
    \/ FormatResponseNode
    \/ Persist
    \/ RecursionError
    \/ Cancelled

AgentSpec == AgentInit /\ [][AgentNext]_vars

-----------------------------------------------------------------------------
(* The conversation: process_query called again and again on one thread,  *)
(* each call taken as a whole.  The LLM asks for tools once and then      *)
(* answers, or answers at once; both stores answer.                       *)

\* Most requests of one conversation.
MaxTurns == 2
\* The results a search of the conversation returns when it finds any.
MaxHits == 3

\* What one request asks for and what the LLM then calls: nothing, one search,
\* both searches, a search its graph does not hold, the earlier sources.
TurnMenu ==
    [search_type : {"RAG_WEB"},
     names : {<<>>, <<"rag_search_tool">>, <<"web_search_tool">>,
              <<"rag_search_tool", "web_search_tool">>}]
    \cup [search_type : {"DEFAULT"},
          names : {<<"rag_search_tool">>, <<"retrieve_previous_sources">>}]

\* A search of the conversation fails or finds MaxHits results.
TurnOutcomes == {-1, MaxHits}

Turns == Cardinality({i \in 1..Len(primary.messages) : primary.messages[i].type = "human"})

\* The tool_message_ids the LLM passes: one or two ids of stored tool
\* messages (the history shows their ids), in either order, or an id the
\* thread does not hold.
AskedMenu ==
    LET known == {primary.messages[i].id : i \in
                     {j \in 1..Len(primary.messages) : primary.messages[j].type = "tool"}}
        T == known \cup {"missing"}
    IN {<<a>> : a \in T} \cup {<<a, b>> : a \in T, b \in known}

\* The messages the graph emits in one run: the user message, the LLM's tool
\* calls and the tools node's messages if it asks for tools, the answer.
RunOf(names, asked, allowed, outcomes) ==
    LET n == Len(names)
        user == UserMessage(None, "m" \o ToString(nextId + n + 1))
        ai_id == "m" \o ToString(nextId + n + 2)
        calls == [i \in 1..n |-> ToolCall(names[i], ai_id \o "_" \o ToString(i), asked)]
        asking == RunMsg("AIMessage", ai_id, EmptyContent, "none", calls, "none")
        answer == RunMsg("AIMessage", "m" \o ToString(nextId + n + 3),
                         TextContent("answer"), "none", <<>>, "none")
    IN IF n = 0 THEN <<user, answer>>
       ELSE <<user, asking>> \o custom_tool_node(calls, allowed, outcomes).messages
            \o <<answer>>

\* process_query, lines 531-586, with the graph run of lines 565-570 taken as
\* one step and every store access answered; the cache entry of the thread
\* has expired since the last request or not.
ProcessQuery ==
    \E turn \in TurnMenu, expired \in BOOLEAN :
      \E asked \in (IF turn.names = <<"retrieve_previous_sources">> THEN AskedMenu
                     ELSE {<<>>}),
         outcomes \in [1..Len(turn.names) -> TurnOutcomes \cup {0}] :
        LET names == turn.names
            allowed == ToolsFor(turn.search_type)
            hit == cacheState.kind = "ok" /\ ~expired
            loaded == IF hit THEN HistoryFromCache(DefaultHistoryLimit)
                      ELSE IF primary.exists THEN HistoryFromPrimary(DefaultHistoryLimit)
                      ELSE <<>>
            messages == loaded \o RunOf(names, asked, allowed, outcomes)
            state == format_response(messages, None)
            plan == AppendPlan(NewMessages(messages, loaded), state.sources_map)
            serialized == SerializeAll(plan.messages, plan.sources_map)
        IN
        /\ Turns < MaxTurns
        /\ \A i \in 1..Len(names) :
              /\ names[i] \notin allowed => outcomes[i] = -1
              /\ names[i] = "retrieve_previous_sources" => outcomes[i] = 0
              /\ names[i] # "retrieve_previous_sources" => outcomes[i] \in TurnOutcomes
        /\ primary' = PrimaryAfterSave(serialized, TRUE)
        /\ cacheState' = CacheAfterSave(serialized, TRUE)
        /\ op' = [name |-> "process_query",
                  search_type |-> turn.search_type,
                  before |-> primary.messages,
                  from |-> IF hit THEN "cache" ELSE "primary",
                  history |-> loaded,
                  emitted |-> SubSeq(messages, Len(loaded) + 1, Len(messages)),
                  response |-> AgentResponse(state)]
        /\ nextId' = nextId + Len(names) + 3
        /\ UNCHANGED <<cacheSources, cacheImages, agentRest, ragVars, storeVars>>

TurnNext == ProcessQuery

TurnSpec == Init /\ [][TurnNext]_vars

-----------------------------------------------------------------------------
(* The tools node on its own: one assistant message with one or two        *)
(* searches, run by ToolNode.ainvoke.                                      *)

SearchCalls ==
    LET tools == {"rag_search_tool", "web_search_tool"} IN
    {<<a>> : a \in tools} \cup {<<a, b>> : a \in tools, b \in tools}

\* Every order of the numbers 1..n.
Orders(n) ==
    {f \in [1..n -> 1..n] : \A i, j \in 1..n : f[i] = f[j] => i = j}

\* line 155, base_tool_node.ainvoke: ToolNode awaits asyncio.gather over one
\* coroutine per tool call.  Each search hands its work to a thread pool
\* (rag_search_tool awaits run_in_executor, web_search_tool is a plain
\* function the tool runs in the executor), so every call has started before
\* any has ended, and they end in any order.
Gathered(n, finished) ==
    [e \in 1..(2 * n) |->
        IF e <= n THEN [call |-> e, event |-> "start"]
        ELSE [call |-> finished[e - n], event |-> "end"]]

\* A node that hands back the outputs in the order the calls ended in: the
\* variant C32 is checked against.
AsCompleted(outputs, finished) ==
    [k \in 1..Len(outputs) |-> outputs[finished[k]]]

\* asyncio.gather returns the results in the order of its awaitables.
gather(outputs, finished) == outputs

RunTools ==
    \E names \in SearchCalls :
      \E outcomes \in [1..Len(names) -> -1..MaxHits], finished \in Orders(Len(names)) :
        LET calls == [i \in 1..Len(names) |->
                         ToolCall(names[i], "a1_" \o ToString(i), <<>>)]
            out == custom_tool_node(gather(calls, finished), AllTools("RAG_WEB"),
                                    gather(outcomes, finished))
        IN
        /\ op = IdleOp
        /\ op' = [name |-> "custom_tool_node",
                  calls |-> calls,
                  outcomes |-> outcomes,
                  finished |-> finished,
                  events |-> Gathered(Len(names), finished),
                  messages |-> out.messages]
        /\ rag_counter' = out.rag_counter
        /\ web_counter' = out.web_counter
        /\ nextId' = nextId + Len(names)
        /\ UNCHANGED <<primary, cacheState, cacheSources, cacheImages, request, pc,
                       visits, graphMessages, history, final, response, toolLog,
                       ragVars, storeVars>>

ToolsNext == RunTools

ToolsSpec == Init /\ [][ToolsNext]_vars

-----------------------------------------------------------------------------
(* The long-thread specification: requests append their turns to one       *)
(* thread until the cap of append_messages drops the oldest messages.  A   *)
(* turn is plain (question, answer) or searching (question, assistant      *)
(* message with the calls, their tool messages, answer); the searching     *)
(* turns are among the first requests.  Both stores answer.                *)

QuestionMsg(k) ==
    RunMsg("HumanMessage", "m" \o ToString(k), TextContent("question"), "none",
           <<>>, "none")

\* The tool the i-th call of a turn names.
SearchName(i) == IF i % 2 = 1 THEN "rag_search_tool" ELSE "web_search_tool"

CallingMsg(k, searches) ==
    RunMsg("AIMessage", "m" \o ToString(k), EmptyContent, "none",
           [i \in 1..searches |->
               ToolCall(SearchName(i), "call_" \o ToString(k) \o "_" \o ToString(i),
                        <<>>)],
           "none")

FoundMsg(k, call) ==
    RunMsg("ToolMessage", "m" \o ToString(k),
           JsonContent(ToolOk(<<Source("1", "c1")>>)), call.name, <<>>, call.id)

\* The messages of a request that began when the thread had been given k
\* ids: the question, for a request with searches the assistant message that
\* calls them and their tool messages, and the answer.
TurnMessages(k, searches) ==
    IF searches = 0 THEN <<QuestionMsg(k + 1), NumberedMsg(k + 2)>>
    ELSE <<QuestionMsg(k + 1), CallingMsg(k + 2, searches)>>
         \o [i \in 1..searches |->
                FoundMsg(k + 2 + i, CallingMsg(k + 2, searches).tool_calls[i])]
         \o <<NumberedMsg(k + 3 + searches)>>

\* process_query, lines 570-578: the messages of the turn and the sources_map
\* format_response made of them are appended.
AppendTurn ==
    \E searches \in 0..MaxToolCalls :
        LET turn == TurnMessages(nextId, searches) IN
        /\ op.name \in {"init", "append_messages"}
        /\ searches > 0 => nextId < 2 * MaxTurns
        /\ nextId + Len(turn) <= MaxAppended
        /\ append_messages(turn, format_response(turn, None).sources_map,
                           TRUE, TRUE, TRUE)
        /\ nextId' = nextId + Len(turn)
        /\ UNCHANGED <<agentRest, ragVars, storeVars>>

LongNext == AppendTurn

LongSpec == Init /\ [][LongNext]_vars

-----------------------------------------------------------------------------
(* The retry specification: one call of a function of the ingestion path   *)
(* that embeds a batch or writes one to the vector store, each attempt     *)
(* returning or raising.                                                   *)

RetryFunctions ==
    {"safe_get_embeddings_batch", "safe_chroma_upsert", "embed_chunks",
     "process_single_batch"}

\* What an attempt raises (the code logs str(e) and does not look at it).
Errors == {"timeout", "rate limit"}

\* range(max_retries): inbound_pipeline.py:43 (and the call of line 396),
\* chroma_client.py:56; embed_chunks and process_single_batch call the
\* embedding once, outside any loop.
MaxRetriesOf(fn) ==
    CASE fn = "safe_get_embeddings_batch" -> 5
      [] fn = "safe_chroma_upsert" -> 3
      [] OTHER -> 1

\* wait_time = min(60, 2 ** attempt) and wait_time = 2 ** attempt.
WaitTime(fn, attempt) ==
    IF fn = "safe_get_embeddings_batch" THEN Min(60, 2 ^ attempt) ELSE 2 ^ attempt

\* How a call ends when an attempt raised and none is left: the two retry
\* loops return None and False, process_single_batch's except branch returns
\* [], embed_chunks has no except branch.
ExhaustedResult(fn) ==
    CASE fn = "safe_get_embeddings_batch" -> "None"
      [] fn = "safe_chroma_upsert" -> "False"
      [] fn = "process_single_batch" -> "[]"
      [] OTHER -> "raised"

RetryCall ==
    \E fn \in RetryFunctions :
        /\ op = IdleOp
        /\ op' = [name |-> "retry", fn |-> fn, attempt |-> 0, errors |-> <<>>,
                  slept |-> <<>>, result |-> "running"]
        /\ UNCHANGED <<primary, cacheState, cacheSources, cacheImages, agentVars,
                       ragVars, storeVars>>

AttemptReturns ==
    /\ op.name = "retry"
    /\ op.result = "running"
    /\ op' = [op EXCEPT !.result = "returned"]
    /\ UNCHANGED <<primary, cacheState, cacheSources, cacheImages, agentVars,
                   ragVars, storeVars>>

\* except Exception: sleep and go round again if attempt < max_retries - 1.
AttemptRaises ==
    \E e \in Errors :
        /\ op.name = "retry"
        /\ op.result = "running"
        /\ op' = IF op.attempt < MaxRetriesOf(op.fn) - 1
                 THEN [op EXCEPT !.errors = Append(@, e),
                                 !.slept = Append(@, WaitTime(op.fn, op.attempt)),
                                 !.attempt = @ + 1]
                 ELSE [op EXCEPT !.errors = Append(@, e),
                                 !.result = ExhaustedResult(op.fn)]
        /\ UNCHANGED <<primary, cacheState, cacheSources, cacheImages, agentVars,
                       ragVars, storeVars>>

RetryNext ==
    \/ RetryCall
    \/ AttemptReturns
    \/ AttemptRaises

RetrySpec == Init /\ [][RetryNext]_vars

-----------------------------------------------------------------------------
(* The batch specification: the embedding and the upload of one ingestion  *)
(* request.  Each batch is a task that hands its work to the thread pool   *)
(* (run_in_executor); a task is queued until a worker takes it.  Every     *)
(* batch succeeds.                                                         *)

\* Most upload batches of one ingestion request.
MaxBatches == 7

\* The numbers of chunks of the documents ingested.
ChunkCounts == {UploadBatchSize * k : k \in 1..MaxBatches}

\* len(range(0, n, size))
BatchCount(n, size) == (n + size - 1) \div size

\* The tasks started and not ended.
InFlight(o) == o.queued + o.running

\* lines 452 and 289-295: the chunks are cut into embedding batches.
IngestStarts ==
    \E n \in ChunkCounts :
        /\ op = IdleOp
        /\ op' = [name |-> "ingest", chunks |-> n, phase |-> "embedding",
                  remaining |-> BatchCount(n, EmbeddingBatchSize),
                  queued |-> 0, running |-> 0, ended |-> 0]
        /\ UNCHANGED <<primary, cacheState, cacheSources, cacheImages, agentVars,
                       ragVars, storeVars>>

\* lines 333-337: the next MAX_CONCURRENT_BATCHES batches are started and
\* gathered; the loop goes on when all of them have ended.
StartWave ==
    /\ op.name = "ingest"
    /\ op.phase = "embedding"
    /\ op.remaining > 0
    /\ InFlight(op) = 0
    /\ op' = [op EXCEPT !.queued = Min(MaxConcurrentBatches, op.remaining),
                        !.remaining = @ - Min(MaxConcurrentBatches, op.remaining)]
    /\ UNCHANGED <<primary, cacheState, cacheSources, cacheImages, agentVars,
                   ragVars, storeVars>>

\* lines 348-364: the vectors are cut into upload batches and every batch is
\* started at once, all of them gathered.
parallel_chroma_upload ==
    /\ op.name = "ingest"
    /\ op.phase = "embedding"
    /\ op.remaining = 0
    /\ InFlight(op) = 0
    /\ op' = [op EXCEPT !.phase = "upload",
                        !.queued = BatchCount(op.chunks, UploadBatchSize),
                        !.ended = 0]
    /\ UNCHANGED <<primary, cacheState, cacheSources, cacheImages, agentVars,
                   ragVars, storeVars>>

\* A free worker of the pool takes a queued batch.
WorkerTakes ==
    /\ op.name = "ingest"
    /\ op.queued > 0
    /\ op.running < ThreadPoolWorkers
    /\ op' = [op EXCEPT !.queued = @ - 1, !.running = @ + 1]
    /\ UNCHANGED <<primary, cacheState, cacheSources, cacheImages, agentVars,
                   ragVars, storeVars>>

WorkerReturns ==
    /\ op.name = "ingest"
    /\ op.running > 0
    /\ op' = [op EXCEPT !.running = @ - 1, !.ended = @ + 1]
    /\ UNCHANGED <<primary, cacheState, cacheSources, cacheImages, agentVars,
                   ragVars, storeVars>>

UploadEnds ==
    /\ op.name = "ingest"
    /\ op.phase = "upload"
    /\ InFlight(op) = 0
    /\ op' = [op EXCEPT !.phase = "done"]
    /\ UNCHANGED <<primary, cacheState, cacheSources, cacheImages, agentVars,
                   ragVars, storeVars>>

BatchNext ==
    \/ IngestStarts
    \/ StartWave
    \/ parallel_chroma_upload
    \/ WorkerTakes
    \/ WorkerReturns
    \/ UploadEnds

BatchSpec == Init /\ [][BatchNext]_vars

-----------------------------------------------------------------------------
(* The expiry specification: the two Redis keys of one thread with their   *)
(* times to live, under the State Manager calls that write them and the    *)
(* passing of time.  mongo holds what the reads fall back to: whether the  *)
(* thread's document exists and which of its messages carry "sources".     *)

SourceIds == {"a1", "a2"}

\* A key Redis does not hold; a key holds its hash fields (the state key
\* none) and its time to live, -1 (what TTL answers) for a key that never
\* expires.
NoKey == [exists |-> FALSE]
Key(fields, ttl) == [exists |-> TRUE, fields |-> fields, ttl |-> ttl]

\* SETEX key ttl value
SETEX(keys, key, ttl) == [keys EXCEPT ![key] = Key({}, ttl)]

\* HSET key field value: a key it creates has no time to live, one that
\* exists keeps the one it has.
HSET(keys, key, field) ==
    [keys EXCEPT ![key] = IF @.exists THEN Key(@.fields \cup {field}, @.ttl)
                          ELSE Key({field}, -1)]

\* EXPIRE key ttl
EXPIRE(keys, key, ttl) ==
    [keys EXCEPT ![key] = IF @.exists THEN Key(@.fields, ttl) ELSE @]

NoKeys == [state |-> NoKey, sources |-> NoKey]

KeysOf(o) == IF o.name = "redis" THEN o.keys ELSE NoKeys
MongoOf(o) == IF o.name = "redis" THEN o.mongo ELSE [doc |-> FALSE, sources |-> {}]

Redis(call, keys, mongo, wrote) ==
    /\ op.name \in {"init", "redis"}
    /\ op' = [name |-> "redis", call |-> call, keys |-> keys, mongo |-> mongo,
              wrote |-> wrote]
    /\ UNCHANGED <<primary, cacheState, cacheSources, cacheImages, agentVars,
                   ragVars, storeVars>>

\* save_messages_with_sources, lines 361-386: the upsert, then SETEX.
SaveMessagesKeys ==
    \E mongoUp \in BOOLEAN, redisUp \in BOOLEAN :
        Redis("save_messages_with_sources",
              IF redisUp THEN SETEX(KeysOf(op), "state", RedisTtl) ELSE KeysOf(op),
              IF mongoUp THEN [MongoOf(op) EXCEPT !.doc = TRUE] ELSE MongoOf(op),
              IF redisUp THEN {"state"} ELSE {})

\* get_conversation_history, lines 203-231: on a miss the thread read from
\* MongoDB is cached with SETEX.
HistoryKeys ==
    /\ ~KeysOf(op).state.exists
    /\ MongoOf(op).doc
    /\ Redis("get_conversation_history",
             SETEX(KeysOf(op), "state", RedisTtl), MongoOf(op), {"state"})

\* save_sources, lines 535-566: messages.$.sources is set on the message of
\* that id, then HSET and EXPIRE in one try block; ran is the number of the
\* two Redis commands that ran before one raised.
SaveSourcesKeys ==
    \E id \in SourceIds, mongoUp \in BOOLEAN, ran \in 0..2 :
        Redis("save_sources",
              IF ran = 0 THEN KeysOf(op)
              ELSE IF ran = 1 THEN HSET(KeysOf(op), "sources", id)
              ELSE EXPIRE(HSET(KeysOf(op), "sources", id), "sources", RedisTtl),
              IF mongoUp /\ MongoOf(op).doc
              THEN [MongoOf(op) EXCEPT !.sources = @ \cup {id}] ELSE MongoOf(op),
              IF ran = 0 THEN {} ELSE {"sources"})

\* get_sources_for_messages, lines 594-632, for one id: a field the hash
\* does not hold is read from MongoDB and put in the hash with HSET.
GetSourcesKeys ==
    \E id \in SourceIds :
        LET miss == ~(KeysOf(op).sources.exists /\ id \in KeysOf(op).sources.fields)
            found == miss /\ MongoOf(op).doc /\ id \in MongoOf(op).sources
        IN Redis("get_sources_for_messages",
                 IF found THEN HSET(KeysOf(op), "sources", id) ELSE KeysOf(op),
                 MongoOf(op),
                 IF found THEN {"sources"} ELSE {})

\* Half the time to live passes: a key whose time has run out is gone.
Aged(key) ==
    IF ~key.exists \/ key.ttl = -1 THEN key
    ELSE IF key.ttl - RedisTtl \div 2 <= 0 THEN NoKey
    ELSE Key(key.fields, key.ttl - RedisTtl \div 2)

TimePasses ==
    /\ op.name = "redis"
    /\ \E k \in {"state", "sources"} : op.keys[k].exists /\ op.keys[k].ttl # -1
    /\ Redis("time", [k \in {"state", "sources"} |-> Aged(op.keys[k])],
             op.mongo, {})

ExpiryNext ==
    \/ SaveMessagesKeys
    \/ HistoryKeys
    \/ SaveSourcesKeys
    \/ GetSourcesKeys
    \/ TimePasses

ExpirySpec == Init /\ [][ExpiryNext]_vars

-----------------------------------------------------------------------------
(* Properties of the State Manager. *)

\* The stored messages a call to get_tool_messages was asked for: the tool
\* messages of the primary store whose id is among the requested ids.
AskedToolMessages ==
    {i \in 1..Len(primary.messages) :
        /\ primary.messages[i].type = "tool"
        /\ primary.messages[i].id \in op.ids}

\* The summary form of _process_messages_for_history: a JSON document that
\* names the tool and carries no result list.
IsSummary(content) ==
    /\ content.kind = "json"
    /\ "tool" \in DOMAIN content.doc
    /\ "results" \notin DOMAIN content.doc

HistoryIsTruncated ==
    op.name = "get_conversation_history" =>
        \A i \in 1..Len(op.result) :
            op.result[i].cls = "ToolMessage" => IsSummary(op.result[i].content)

\* C4: after a successful append_messages with sources_map = {a1: S}, the
\* next get_sources_for_messages([a1]), with both stores answering, returns S
\* for a1, whether the sources hash holds a1 or not.
C4_SourcesRoundTrip ==
    [][(/\ op.name = "append_messages"
        /\ op.success
        /\ "a1" \in DOMAIN op.sources_map
        /\ op'.name = "get_sources_for_messages"
        /\ op'.redisUp
        /\ op'.mongoUp)
       => (/\ "a1" \in DOMAIN op'.result
           /\ op'.result["a1"] = op.sources_map["a1"])]_vars

\* C5: a write path gives the cache a message list only when the primary store
\* accepted that list: after append_messages has written the cache, the
\* primary store holds the same list.
C5_PrimaryBeforeCache ==
    (op.name = "append_messages" /\ op.cache_written) =>
        (/\ op.primary_written
         /\ primary = Doc(op.written)
         /\ cacheState = CacheOk(primary.messages))

\* C6: repeating a successful append_messages with the same messages (same
\* ids, same content) and the same sources_map leaves the stored thread as it
\* was after the first append.
C6_AppendIdempotent ==
    [][(/\ op.name = "append_messages"
        /\ op.success
        /\ op'.name = "append_messages"
        /\ op'.success
        /\ op'.new_messages = op.new_messages
        /\ op'.sources_map = op.sources_map)
       => primary' = primary]_vars

C9_ReadsFallThrough ==
    /\ (/\ op.name = "get_conversation_history"
        /\ op.cache \in {"absent", "corrupt", "unavailable"}
        /\ op.mongoUp)
       => op.result = HistoryFromPrimary(op.limit)
    /\ (/\ op.name = "get_sources_for_messages"
        /\ op.cache_fault
        /\ op.mongoUp)
       => \A id \in DOMAIN SourcesFromPrimary({"a1"}, TRUE) :
             /\ id \in DOMAIN op.result
             /\ op.result[id] = SourcesFromPrimary({"a1"}, TRUE)[id]
    /\ (op.name = "get_all_sources" /\ op.cache_fault)
       => op.result = op.stored

\* C10: after clear_conversation has returned True, the primary document and
\* the three cache keys of the thread are gone, and the next
\* get_conversation_history returns the empty list.
C10_ClearThenEmpty ==
    [][/\ (op'.name = "clear_conversation" /\ op'.success)
          => (/\ ~primary'.exists
              /\ cacheState' = CacheAbsent
              /\ cacheSources' = NoSourcesMap
              /\ cacheImages' = {})
       /\ (/\ op.name = "clear_conversation"
           /\ op.success
           /\ op'.name = "get_conversation_history")
          => op'.result = <<>>]_vars

\* C8: after any sequence of append_messages calls the stored list holds at
\* most 100 messages, and they are the most recently appended ones, in the
\* order they were appended.
C8_CapNewest ==
    LET n == Len(primary.messages) IN
    /\ n <= MaxStoredMessages
    /\ n = Min(nextId, MaxStoredMessages)
    /\ \A i \in 1..n : primary.messages[i].id = "m" \o ToString(nextId - n + i)

\* The source references of a stored message, a key the document does not hold
\* read as empty (msg_data.get("rag_source_ids", [])).
StoredRefs(msg_data) ==
    [rag_source_ids |-> IF msg_data.refs.present
                        THEN msg_data.refs.rag_source_ids ELSE <<>>,
     web_source_ids |-> IF msg_data.refs.present
                        THEN msg_data.refs.web_source_ids ELSE <<>>,
     image_source |-> IF msg_data.refs.present
                      THEN msg_data.refs.image_source ELSE [present |-> FALSE]]

\* C29: a rewrite by append_messages leaves every stored assistant message
\* the rag_source_ids, web_source_ids and image_source it had, unless the
\* sources_map of the call names its id: then it has those of the new entry.
C29_ReferencesKept ==
    [][(op'.name = "append_messages" /\ op'.primary_written /\ primary.exists)
       => \A i \in 1..Len(primary.messages) :
            primary.messages[i].type = "ai" =>
               /\ i <= Len(primary'.messages)
               /\ primary'.messages[i].id = primary.messages[i].id
               /\ StoredRefs(primary'.messages[i])
                     = IF primary.messages[i].id \in DOMAIN op'.sources_map
                       THEN StoredRefs(serialize_message(
                                AssistantMsg(primary.messages[i].id),
                                op'.sources_map[primary.messages[i].id]))
                       ELSE StoredRefs(primary.messages[i])]_vars

\* The thread holds a1 with an image source and a web source after a later
\* append of a2 whose sources_map did not name a1.
C29_Witness ==
    /\ op.name = "append_messages"
    /\ op.primary_written
    /\ "a1" \notin DOMAIN op.sources_map
    /\ Len(primary.messages) >= 2
    /\ primary.messages[1].id = "a1"
    /\ primary.messages[Len(primary.messages)].id = "a2"
    /\ StoredRefs(primary.messages[1])
          = StoredRefs(serialize_message(AssistantMsg("a1"), SourcesImage))

-----------------------------------------------------------------------------
(* Properties of the agent. *)

\* The messages this request has added to the graph state.
RequestMessages == SubSeq(graphMessages, Len(history) + 1, Len(graphMessages))

\* The successful tool messages of this request of the tool named kind.
SuccessfulOf(kind) ==
    SelectSeq(RequestMessages,
              LAMBDA m : /\ m.cls = "ToolMessage"
                         /\ m.name = kind
                         /\ Parse(m.content) # ParseError
                         /\ Get(Parse(m.content), "success", FALSE) = TRUE)

IdsOf(results) == [i \in 1..Len(results) |-> results[i].id]

\* The ids of the results of those messages, in tool-message order.
GivenIds(kind) == IdsOf(ResultsOf(SuccessfulOf(kind)))

FirstIds(n) == [i \in 1..n |-> ToString(i)]

\* C1: within one request the ids of the successful rag results, in
\* tool-message order, are "1", "2", ..., "n" with no gap and no repeat, and so
\* are the ids of the successful web results, each sequence starting at 1; the
\* response carries the same ids.
C1_SequentialIds ==
    /\ GivenIds("rag_search_tool") = FirstIds(Len(GivenIds("rag_search_tool")))
    /\ GivenIds("web_search_tool") = FirstIds(Len(GivenIds("web_search_tool")))
    /\ rag_counter = Len(GivenIds("rag_search_tool"))
    /\ web_counter = Len(GivenIds("web_search_tool"))
    /\ pc = "done" =>
          /\ IdsOf(response.rag_sources) = GivenIds("rag_search_tool")
          /\ IdsOf(response.web_sources) = GivenIds("web_search_tool")

\* A finished request whose results came from two rag searches: the second
\* search's result has the id "2".
C1_Witness ==
    /\ pc = "done"
    /\ Len(SuccessfulOf("rag_search_tool")) = 2
    /\ IdsOf(response.rag_sources) = <<"1", "2">>
    /\ Parse(SuccessfulOf("rag_search_tool")[2].content).results[1].id = "2"

WellFormed(r) ==
    /\ r.present
    /\ r.response.kind = "text"
    /\ DOMAIN r.rag_sources = 1..Len(r.rag_sources)
    /\ DOMAIN r.web_sources = 1..Len(r.web_sources)
    /\ DOMAIN r.image_sources = 1..Len(r.image_sources)

\* C2: a request runs at most 10 graph nodes whatever the LLM returns, and a
\* request that has ended, also one that was stopped at the limit, has
\* returned a response with a text and the rag, web and image source lists.
C2_BoundedVisits ==
    /\ visits <= RecursionLimit
    /\ pc \in {"done", "failed"} => WellFormed(response)
    /\ pc \notin {"done", "failed"} => response = NoResponse

\* Five rounds of tool calls used up the ten nodes; the request was stopped
\* and answered.
C2_Witness ==
    /\ pc = "failed"
    /\ visits = RecursionLimit
    /\ Len(toolLog) >= 5
    /\ response.rag_sources = <<>>
    /\ response = ErrorResponse(GraphRecursionError)

\* The tools listed for each search type.
ListedTools(search_type) ==
    CASE search_type = "DEFAULT" -> {"retrieve_previous_sources"}
      [] search_type = "RAG" -> {"rag_search_tool", "retrieve_previous_sources"}
      [] search_type = "WEB" -> {"web_search_tool", "retrieve_previous_sources"}
      [] search_type = "RAG_WEB" ->
            {"rag_search_tool", "web_search_tool", "retrieve_previous_sources"}
      [] OTHER -> {}

\* C3: the tools node runs only the tools listed for the request's search
\* type; a call that names any other tool is answered with the node's error
\* text, adds no result and is not run.  With DEFAULT no search runs.
C3_OnlyListedTools ==
    /\ \A i \in 1..Len(toolLog) :
          toolLog[i].executed <=> toolLog[i].name \in ListedTools(request.search_type)
    /\ \A i \in 1..Len(RequestMessages) :
          LET m == RequestMessages[i] IN
          (m.cls = "ToolMessage" /\ m.name \notin ListedTools(request.search_type))
             => /\ m.content.kind = "raw"
                /\ \E j \in 1..Len(toolLog) :
                      toolLog[j].message_id = m.id /\ ~toolLog[j].executed
    /\ request.search_type = "DEFAULT" =>
          /\ GivenIds("rag_search_tool") = <<>>
          /\ GivenIds("web_search_tool") = <<>>
          /\ rag_counter = 0
          /\ web_counter = 0

\* A DEFAULT request in which the LLM asked for rag_search_tool: the call was
\* rejected and the request finished without sources.
C3_Witness ==
    /\ request.search_type = "DEFAULT"
    /\ pc = "done"
    /\ \E i \in 1..Len(toolLog) :
          toolLog[i].name = "rag_search_tool" /\ ~toolLog[i].executed
    /\ response.rag_sources = <<>>

-----------------------------------------------------------------------------
(* Properties of the tools. *)

\* The message the tools node returned for entry i of toolLog, as the run's
\* messages hold it.
RecordedFor(i) ==
    SelectSeq(graphMessages, LAMBDA m : m.cls = "ToolMessage"
                                        /\ m.id = toolLog[i].message_id)

\* The failure document of the three tools.
IsFailure(doc) ==
    /\ doc # ParseError
    /\ Get(doc, "success", TRUE) = FALSE
    /\ "error" \in DOMAIN doc
    /\ "results" \in DOMAIN doc
    /\ doc.results = <<>>

\* C11: rag_search_tool, web_search_tool and retrieve_previous_sources never
\* raise: every call the tools node runs leaves exactly one tool message in
\* the run's messages, its content is a JSON document, and when an exception
\* was raised inside the tool that document is
\* {success: false, error, results: []}.
C11_ToolsNeverRaise ==
    \A i \in 1..Len(toolLog) :
        toolLog[i].executed =>
            /\ Len(RecordedFor(i)) = 1
            /\ RecordedFor(i)[1].name = toolLog[i].name
            /\ Parse(RecordedFor(i)[1].content) # ParseError
            /\ toolLog[i].raised => IsFailure(Parse(RecordedFor(i)[1].content))

\* A search and retrieve_previous_sources both raised in one request, and
\* the request ran to its end.
C11_Witness ==
    /\ pc = "done"
    /\ \E i, j \in 1..Len(toolLog) :
          /\ toolLog[i].raised /\ toolLog[i].name = "retrieve_previous_sources"
          /\ toolLog[j].raised /\ toolLog[j].name \in {"rag_search_tool", "web_search_tool"}

-----------------------------------------------------------------------------
(* Properties of process_query's failures. *)

\* C12: when the LLM call fails the run is aborted (format_response has not
\* run and nothing was appended to the thread) and the caller receives an
\* assistant message that contains the error, with ragSources, webSources and
\* imageSources all empty.
C12_LLMFailureFallback ==
    (pc = "failed" /\ final = NoFinal /\ visits < RecursionLimit)
    => /\ response = ErrorResponse(LLMError)
       /\ response.rag_sources = <<>>
       /\ response.web_sources = <<>>
       /\ response.image_sources = <<>>
       /\ primary = Doc(PriorThread)
       /\ cacheState = CacheOk(PriorThread)

\* The LLM call failed after a search had returned a result.
C12_Witness ==
    /\ pc = "failed"
    /\ response = ErrorResponse(LLMError)
    /\ rag_counter > 0

\* C13: a request whose search_type is not one of DEFAULT, RAG, WEB, RAG_WEB
\* (in either case) is answered with an input error and the agent is not run
\* for it: no graph node runs and the answer names the search type.
C13_UnknownSearchTypeRejected ==
    (request # NoRequest /\ Upper(request.asked) \notin SearchTypes)
    => /\ visits = 0
       /\ pc = "failed"
       /\ response = ErrorResponse("invalid search_type " \o request.asked)

\* C27: when a request has run to its end and its messages were appended, the
\* thread of the primary store is the thread as it was before the request
\* followed by the messages of this run in the order the graph emitted them,
\* and no message id is stored twice.
C27_AppendedInOrder ==
    pc = "done" =>
        /\ primary.messages
              = PriorThread \o SerializeAll(RequestMessages, final.sources_map)
        /\ \A i, j \in 1..Len(primary.messages) :
              primary.messages[i].id = primary.messages[j].id => i = j

\* A run with a search: a question, the tool call, its message, the answer.
C27_Witness ==
    /\ pc = "done"
    /\ Len(RequestMessages) >= 4
    /\ RequestMessages[1].cls = "HumanMessage"
    /\ \E i \in 1..Len(RequestMessages) : RequestMessages[i].cls = "ToolMessage"
    /\ Len(primary.messages) = Len(PriorThread) + Len(RequestMessages)

\* The stored forms of the thread: the primary store's and, when it holds the
\* thread, the cache's.
StoredForms ==
    {primary.messages} \cup (IF cacheState.kind = "ok" THEN {cacheState.messages} ELSE {})

\* C28: a user message in the primary store or in the cache holds text only,
\* whatever the message of the run held.
C28_UserTextOnly ==
    \A stored \in StoredForms :
        \A i \in 1..Len(stored) :
            stored[i].type = "human" => stored[i].content.kind = "text"

\* A request whose user message carried the image of its snapshot was
\* appended: both stores hold the message with its text alone.
C28_Witness ==
    /\ pc = "done"
    /\ cacheState.kind = "ok"
    /\ \E i \in 1..Len(RequestMessages) :
          /\ RequestMessages[i].cls = "HumanMessage"
          /\ RequestMessages[i].content.kind = "multimodal"
          /\ \A stored \in StoredForms :
                \E j \in 1..Len(stored) :
                    /\ stored[j].id = RequestMessages[i].id
                    /\ stored[j].content = TextContent(RequestMessages[i].content.text)

\* C31: a run moves start -> agent, agent -> tools when the last assistant
\* message holds tool calls and agent -> format_response when it holds none,
\* tools -> agent, format_response -> end; any node may end the run with an
\* error.  format_response runs once, after it no node runs, and the final
\* state exists only when it has run.
C31_GraphEdges ==
    /\ [][pc' # pc =>
            LET last == graphMessages'[Len(graphMessages')] IN
            \/ pc = "idle" /\ pc' = "agent"
            \/ pc = "agent" /\ pc' = "tools"
                  /\ last.cls = "AIMessage" /\ last.tool_calls # <<>>
            \/ pc = "agent" /\ pc' = "format_response"
                  /\ last.cls = "AIMessage" /\ last.tool_calls = <<>>
            \/ pc = "tools" /\ pc' = "agent"
            \/ pc = "format_response" /\ pc' = "end"
                  /\ ~final.present /\ final'.present
            \/ pc = "end" /\ pc' = "done" /\ visits' = visits
            \/ pc' \in {"failed", "cancelled"}]_vars
    /\ [](final.present => pc \in {"end", "done", "failed"})

\* A run that went agent -> tools -> agent -> format_response -> end.
C31_Witness ==
    /\ pc = "end"
    /\ final.present
    /\ visits = 4
    /\ Len(toolLog) = 1

\* C33: what format_response collects comes from the tool messages of this
\* request alone: the rag and web sources are the results of its successful
\* searches, and no tool message of the loaded history is among the ids
\* recorded for the final assistant message.
C33_CurrentTurnOnly ==
    final.present =>
        /\ final.rag_sources = ResultsOf(SuccessfulOf("rag_search_tool"))
        /\ final.web_sources = ResultsOf(SuccessfulOf("web_search_tool"))
        /\ \A k \in DOMAIN final.sources_map :
              /\ final.sources_map[k].rag_source_ids
                    = MessageIds(SuccessfulOf("rag_search_tool"))
              /\ final.sources_map[k].web_source_ids
                    = MessageIds(SuccessfulOf("web_search_tool"))
              /\ \A i \in 1..Len(history) :
                    \A j \in 1..Len(final.sources_map[k].rag_source_ids) :
                        final.sources_map[k].rag_source_ids[j] # history[i].id

\* The history held the search of the earlier turn, this request ran a
\* search of its own, and only that one was collected.
C33_Witness ==
    /\ final.present
    /\ \E i \in 1..Len(history) :
          history[i].cls = "ToolMessage" /\ history[i].name = "rag_search_tool"
    /\ Len(final.rag_sources) = 1
    /\ \E k \in DOMAIN final.sources_map :
          Len(final.sources_map[k].rag_source_ids) = 1

\* C34: a request that ended before its graph had run to the end (the LLM
\* call raised, the recursion limit was reached, the task was cancelled) has
\* written nothing: the primary store and the cache hold the thread as it was
\* before the request.
C34_NothingPersisted ==
    pc \in {"failed", "cancelled"} =>
        /\ primary = Doc(PriorThread)
        /\ cacheState = CacheOk(PriorThread)

\* A request was cancelled after its user message, an assistant message and a
\* tool message had got their ids.
C34_Witness ==
    /\ pc = "cancelled"
    /\ nextId >= 3
    /\ response = NoResponse
    /\ primary = Doc(PriorThread)

\* C35: once no append_messages call is under way, the stored thread holds
\* the message of every call that returned True.
C35_BothAppended ==
    (op.name = "appends" /\ \A c \in Callers : op.calls[c].pc = "none") =>
        \A id \in op.completed :
            \E i \in 1..Len(primary.messages) : primary.messages[i].id = id

\* C36: a history served from the cache is the history the primary store
\* would have given for the same limit.
C36_CacheAsPrimary ==
    (op.name = "get_conversation_history" /\ op.from = "cache") =>
        op.result = HistoryFromPrimary(op.limit)

\* The tool-message ids a stored assistant message refers to.
ReferredIds(msg_data) ==
    {StoredRefs(msg_data).rag_source_ids[j] :
        j \in 1..Len(StoredRefs(msg_data).rag_source_ids)}
    \cup {StoredRefs(msg_data).web_source_ids[j] :
             j \in 1..Len(StoredRefs(msg_data).web_source_ids)}

\* C37: every id in the rag_source_ids or web_source_ids of a stored
\* assistant message is the id of a tool message of the same stored thread.
C37_ReferencesResolve ==
    \A i \in 1..Len(primary.messages) :
        primary.messages[i].type = "ai" =>
            \A id \in ReferredIds(primary.messages[i]) :
                \E j \in 1..Len(primary.messages) :
                    /\ primary.messages[j].type = "tool"
                    /\ primary.messages[j].id = id

\* C38: a call makes at most 5 attempts, sleeps 1, 2, 4, ... seconds between
\* them, and an attempt that raised is tried again: a call ends without a
\* result only after a retry.
C38_RetriedWithBackoff ==
    op.name = "retry" =>
        /\ op.attempt + 1 <= 5
        /\ \A k \in 1..Len(op.slept) : op.slept[k] = 2 ^ (k - 1)
        /\ op.result \notin {"running", "returned"} => Len(op.slept) >= 1

\* C39: at no moment of an ingestion request are more than 6 embedding
\* batches, or more than 6 upload batches, started and not ended.
C39_SixInFlight ==
    op.name = "ingest" => InFlight(op) <= 6

\* C40: each of the thread's two keys that Redis holds has a time to live,
\* and a key a State Manager call has just written has the full 24 hours.
C40_KeysExpire ==
    op.name = "redis" =>
        \A k \in {"state", "sources"} :
            /\ op.keys[k].exists => op.keys[k].ttl # -1
            /\ k \in op.wrote => op.keys[k].ttl = RedisTtl

\* C25: the answer to a request that carried a snapshot and ran to its end
\* holds exactly one image source: id "page", type "current", the slide and
\* the page of the snapshot, a timestamp.
C25_SnapshotCitation ==
    (pc = "done" /\ request.sent # None) =>
        ChatImageSources(response.image_sources)
            = <<[id |-> "page", type |-> "current", messageId |-> "none",
                 timestamp |-> "ts", slideId |-> request.sent.slide_id,
                 pageNumber |-> request.sent.page_number]>>

-----------------------------------------------------------------------------
(* The chunker: chunk_pdf and process_chunks_langchain.                    *)
(*                                                                         *)
(* A text is [hashes, words]: the number of '#' it starts with (a token of *)
(* its own when there is one) and the lengths of its words; the tokens are *)
(* separated by one whitespace character, and no word holds a separator of *)
(* the recursive splitter other than that space.                           *)

\* Most sections MarkdownHeaderTextSplitter returns for one document.
MaxSections == 2
\* max_words, the word limit chunk_pdf is called with.
MaxWords == 2

RECURSIVE SumSeq(_)
SumSeq(seq) == IF seq = <<>> THEN 0 ELSE Head(seq) + SumSeq(Tail(seq))

Tokens(text) == IF text.hashes > 0 THEN <<text.hashes>> \o text.words ELSE text.words

\* count_words(text): len(text.split()).
count_words(text) == Len(Tokens(text))

\* len(text).
CharCount(text) == SumSeq(Tokens(text)) + Len(Tokens(text)) - 1

\* The offset in a text of its token number a.
OffsetOf(tokens, a) == SumSeq(SubSeq(tokens, 1, a - 1)) + (a - 1)

\* The stripped text of the tokens a..b of a text.
TextOf(text, a, b) ==
    LET tokens == Tokens(text) IN
    IF a = 1 /\ text.hashes > 0
    THEN [hashes |-> text.hashes, words |-> SubSeq(tokens, 2, b)]
    ELSE [hashes |-> 0, words |-> SubSeq(tokens, a, b)]

\* RecursiveCharacterTextSplitter(chunk_size, chunk_overlap=0, separator " "
\* kept at the end of each piece): pieces are merged while they fit.  The
\* current document is the pieces a..b-1 and piece b is looked at.
PieceLen(tokens, i) == tokens[i] + (IF i < Len(tokens) THEN 1 ELSE 0)

RECURSIVE MergeSplits(_, _, _, _)
MergeSplits(tokens, a, b, chunk_size) ==
    IF b > Len(tokens)
    THEN (IF a < b THEN <<[from |-> a, to |-> b - 1]>> ELSE <<>>)
    ELSE IF a < b /\ SumSeq([i \in 1..(b - a) |-> PieceLen(tokens, a + i - 1)])
                     + PieceLen(tokens, b) > chunk_size
         THEN <<[from |-> a, to |-> b - 1]>> \o MergeSplits(tokens, b, b + 1, chunk_size)
         ELSE MergeSplits(tokens, a, b + 1, chunk_size)

\* recursive_splitter.split_text(text), as token ranges of the text.
SplitText(text, chunk_size) == MergeSplits(Tokens(text), 1, 1, chunk_size)

\* Markers that number the pages from 0: the variant C18 is checked against.
ZeroBasedMarkers(pages) ==
    [i \in 1..Len(pages) |->
        [pos |-> SumSeq(SubSeq(pages, 1, i - 1)) + (i - 1), page |-> i - 1]]

\* page_markers of convert_pdf_to_markdown (lines 41-50), sorted by position:
\* page i+1 starts at the sum of the earlier pages' lengths, each plus one.
PageMarkers(pages) ==
    [i \in 1..Len(pages) |->
        [pos |-> SumSeq(SubSeq(pages, 1, i - 1)) + (i - 1), page |-> i]]

\* get_page_numbers(char_start, char_end, page_markers, total_pages).
RECURSIVE StartPage(_, _, _)
StartPage(char_start, markers, page_start) ==
    IF markers = <<>> THEN page_start
    ELSE IF char_start < Head(markers).pos THEN page_start
    ELSE StartPage(char_start, Tail(markers), Head(markers).page)

RECURSIVE EndPage(_, _, _)
EndPage(char_end, markers, page_end) ==
    IF markers = <<>> THEN page_end
    ELSE IF char_end <= Head(markers).pos THEN Head(markers).page - 1
    ELSE EndPage(char_end, Tail(markers), Head(markers).page)

Max(a, b) == IF a > b THEN a ELSE b

get_page_numbers(char_start, char_end, page_markers, total_pages) ==
    IF page_markers = <<>> THEN [page_start |-> 1, page_end |-> 1]
    ELSE LET page_start == StartPage(char_start, page_markers, 1)
             page_end == EndPage(char_end, page_markers, total_pages)
         IN [page_start |-> page_start, page_end |-> Max(page_start, page_end)]

\* The stable id "{course_id}:{slide_id}:{i}".
ChunkId(course_id, slide_id, i) == course_id \o ":" \o slide_id \o ":" \o ToString(i)

CourseId == "c1"
SlideId == "s1"

\* chunk_data of lines 286-309 and 368-391.
ChunkData(text, split_level, orig_id, index, chunk_start, total, sibling_idx, doc) ==
    LET pn == get_page_numbers(chunk_start, chunk_start + CharCount(text),
                               PageMarkers(doc.pages), Len(doc.pages))
    IN [id |-> ChunkId(doc.course_id, doc.slide_id, index),
        text |-> text,
        word_count |-> count_words(text),
        char_count |-> CharCount(text),
        split_level |-> split_level,
        original_chunk_id |-> orig_id,
        chunk_index |-> index,
        page_start |-> pn.page_start,
        page_end |-> pn.page_end,
        headers_hierarchy |-> <<>>,
        char_start_pos |-> chunk_start,
        char_end_pos |-> chunk_start + CharCount(text),
        course_id |-> doc.course_id,
        slide_id |-> doc.slide_id,
        total_pages |-> Len(doc.pages),
        sentence_sibling_count |-> total,
        sentence_sibling_index |-> sibling_idx,
        is_header |-> FALSE,
        header_level |-> 0]

\* Step 1, lines 266-315: where each section starts.  A section's found is
\* what markdown_text.find(chunk_text, char_position) adds to char_position,
\* -1 when the text is not found; the search then falls back to
\* char_position.
RECURSIVE ChunkStart(_, _)
ChunkStart(sections, i) ==
    LET char_position == IF i = 1 THEN 0
                         ELSE ChunkStart(sections, i - 1)
                              + CharCount(sections[i - 1].text)
    IN IF sections[i].found = -1 THEN char_position
       ELSE char_position + sections[i].found

Oversized(section) == count_words(section.text) > MaxWords

\* Lines 285-310: the sections within the limit, in order; chunk_index is the
\* length of processed_chunks so far.
RECURSIVE MarkdownChunks(_, _)
MarkdownChunks(doc, n) ==
    IF n = 0 THEN <<>>
    ELSE LET before == MarkdownChunks(doc, n - 1) IN
         IF Oversized(doc.sections[n]) THEN before
         ELSE Append(before,
                     ChunkData(doc.sections[n].text, "markdown", n - 1, Len(before),
                               ChunkStart(doc.sections, n), 1, 0, doc))

\* A sub-chunk placed at its offset in the section only: the variant C14 is
\* checked against.
RelativeStart(parent_start, offset) == offset

\* Line 357: parent_start + text.find(sub_text, local_pos).  A sub-chunk is
\* found where it was cut: only whitespace lies between local_pos and it.
SubStart(parent_start, offset) == parent_start + offset

\* Lines 344-392 for section n: its sub-chunks, appended to processed.
SubChunks(doc, n, processed) ==
    LET text == doc.sections[n].text
        sub_docs == SplitText(text, MaxWords * 6)
    IN [k \in 1..Len(sub_docs) |->
           ChunkData(TextOf(text, sub_docs[k].from, sub_docs[k].to), "recursive",
                     n - 1, Len(processed) + k - 1,
                     SubStart(ChunkStart(doc.sections, n),
                              OffsetOf(Tokens(text), sub_docs[k].from)),
                     Len(sub_docs), k - 1, doc)]

RECURSIVE RecursiveChunks(_, _, _)
RecursiveChunks(doc, n, processed) ==
    IF n = 0 THEN processed
    ELSE LET before == RecursiveChunks(doc, n - 1, processed) IN
         IF Oversized(doc.sections[n])
         THEN before \o SubChunks(doc, n, before)
         ELSE before

\* processed_chunks.sort(key=char_start_pos): a stable sort.
RECURSIVE SortByStart(_)
SortByStart(seq) ==
    IF seq = <<>> THEN <<>>
    ELSE LET sorted == SortByStart(SubSeq(seq, 1, Len(seq) - 1))
             c == seq[Len(seq)]
             k == Cardinality({i \in 1..Len(sorted) :
                                  sorted[i].char_start_pos <= c.char_start_pos})
         IN SubSeq(sorted, 1, k) \o <<c>> \o SubSeq(sorted, k + 1, Len(sorted))

\* A chunker that leaves the ids and indices it gave before the sort: the
\* variant C17 is checked against.
KeepNumbers(seq) == seq

\* Lines 398-400.
Renumbered(seq) ==
    [i \in 1..Len(seq) |->
        [seq[i] EXCEPT !.id = ChunkId(seq[i].course_id, seq[i].slide_id, i - 1),
                       !.chunk_index = i - 1]]

\* build_header_hierarchy_with_titles: the header level of a chunk, 0 when it
\* is a regular chunk (no leading '#', or more than six).
HeaderLevel(chunk) ==
    IF chunk.text.hashes >= 1 /\ chunk.text.hashes <= 6 THEN chunk.text.hashes ELSE 0

NoHeader == -1

\* A header that leaves the lower levels as they are: the variant C16 is
\* checked against.
KeepLower(current_headers, level, chunk_idx) ==
    [lvl \in 1..6 |-> IF lvl = level THEN chunk_idx ELSE current_headers[lvl]]

\* Lines 172-177: the lower levels are cleared, the header's level is set.
ClearLower(current_headers, level, chunk_idx) ==
    [lvl \in 1..6 |-> IF lvl = level THEN chunk_idx
                      ELSE IF lvl > level THEN NoHeader
                      ELSE current_headers[lvl]]

\* current_headers after the first k chunks.
RECURSIVE CurrentHeaders(_, _)
CurrentHeaders(seq, k) ==
    IF k = 0 THEN [lvl \in 1..6 |-> NoHeader]
    ELSE LET before == CurrentHeaders(seq, k - 1)
             level == HeaderLevel(seq[k])
         IN IF level = 0 THEN before
            ELSE ClearLower(before, level, seq[k].chunk_index)

\* parent_indices: the tracked headers of the levels 1..top, in level order.
RECURSIVE ParentIndices(_, _)
ParentIndices(current_headers, top) ==
    IF top = 0 THEN <<>>
    ELSE ParentIndices(current_headers, top - 1)
         \o (IF current_headers[top] # NoHeader THEN <<current_headers[top]>>
             ELSE <<>>)

\* Lines 408-421: the chunks with their header hierarchy.
WithHeaders(seq) ==
    [k \in 1..Len(seq) |->
        LET level == HeaderLevel(seq[k])
            current_headers == CurrentHeaders(seq, k)
        IN [seq[k] EXCEPT
               !.headers_hierarchy =
                   ParentIndices(current_headers, IF level = 0 THEN 6 ELSE level - 1),
               !.is_header = level # 0,
               !.header_level = level]]

\* process_chunks_langchain(markdown_text, metadata, ...).  The sibling
\* validation of line 404 changes nothing (validate_sibling_contiguity).
process_chunks_langchain(doc) ==
    LET processed_chunks ==
            RecursiveChunks(doc, Len(doc.sections),
                            MarkdownChunks(doc, Len(doc.sections)))
    IN WithHeaders(Renumbered(SortByStart(processed_chunks)))

\* The documents: up to MaxSections sections, each with or without a header
\* line, short, long in words or long in characters, found or not found in
\* the markdown text; one page or three.
Texts ==
    [hashes : {0, 1, 2, 7}, words : {<<1>>, <<1, 1, 1>>, <<8, 8, 1>>}]

Sections == [text : Texts, found : {-1, 2}]

Pages == {<<90>>, <<4, 9, 90>>}

Documents ==
    [sections : UNION {[1..n -> Sections] : n \in 1..MaxSections}, pages : Pages,
     course_id : {CourseId}, slide_id : {SlideId}]

\* chunk_pdf(course_id, slide_id, s3_file_name, file_stream, max_words).
ChunkPdf ==
    \E doc \in Documents :
        /\ markdown = NoMarkdown
        /\ markdown' = doc
        /\ chunks' = process_chunks_langchain(doc)
        /\ UNCHANGED <<smVars, agentVars, storeVars, validation, retrieval>>

ChunkNext ==
    \/ ChunkPdf

ChunkSpec == Init /\ [][ChunkNext]_vars

-----------------------------------------------------------------------------
(* validate_sibling_contiguity, on any chunk list.                         *)

\* Longest chunk list handed to the validation.
MaxListed == 3

\* The fields of a chunk the validation reads.
ListedChunks == [original_chunk_id : 0..1, sentence_sibling_index : 0..2]

ChunkLists == UNION {[1..n -> ListedChunks] : n \in 1..MaxListed}

\* chunk_groups[orig_id]: the positions of the group's chunks, in order.
GroupOf(list, orig_id) ==
    SelectSeq([i \in 1..Len(list) |-> i],
              LAMBDA i : list[i].original_chunk_id = orig_id)

\* Lines 453-473 for one group: a gap between two positions, or a sibling
\* index that is not the chunk's rank in the group.
GroupHasIssue(list, orig_id) ==
    LET indices == GroupOf(list, orig_id) IN
    /\ Len(indices) > 1
    /\ \/ \E i \in 2..Len(indices) : indices[i] # indices[i - 1] + 1
       \/ \E idx \in 1..Len(indices) :
             list[indices[idx]].sentence_sibling_index # idx - 1

\* validate_sibling_contiguity(chunks): it prints what it finds and returns
\* None.
validate_sibling_contiguity(list) ==
    LET offending == {list[i].original_chunk_id : i \in 1..Len(list)}
                     \cap {g \in 0..1 : GroupHasIssue(list, g)}
    IN [done |-> TRUE,
        chunks |-> list,
        issues_found |-> offending # {},
        offending |-> offending,
        raised |-> FALSE,
        returned |-> TRUE]

ValidateSiblings ==
    \E list \in ChunkLists :
        /\ validation = NoValidation
        /\ validation' = validate_sibling_contiguity(list)
        /\ UNCHANGED <<smVars, agentVars, storeVars, markdown, chunks, retrieval>>

ValidateNext ==
    \/ ValidateSiblings

ValidateSpec == Init /\ [][ValidateNext]_vars

-----------------------------------------------------------------------------
(* retrieve_similar_chunks.                                                *)

\* Largest limit (top K) of a retrieval.
MaxLimit == 2

\* A document of the chunk collection, with the fields the filters read.
StoredChunk(id, course_id, slide_id, chunk_index, embedding) ==
    [id |-> id, course_id |-> course_id, slide_id |-> slide_id,
     chunk_index |-> chunk_index, embedding |-> embedding, s3_file_name |-> "a.pdf"]

\* The collection the retrievals of RetrievalSpec run on: two courses, two
\* slides, an embedding each.
Collection ==
    {StoredChunk("d1", "c1", "s1", 0, 1), StoredChunk("d2", "c1", "s1", 1, 2),
     StoredChunk("d3", "c1", "s2", 0, 3), StoredChunk("d4", "c1", "s2", 1, 4),
     StoredChunk("d5", "c2", "s1", 0, 5), StoredChunk("d6", "c2", "s2", 1, 6)}

\* vectorSearchScore: the nearer the embedding to the query vector, the higher.
Score(doc, query_embedding) ==
    IF doc.embedding > query_embedding THEN query_embedding - doc.embedding
    ELSE doc.embedding - query_embedding

ListSet(list) == {list[i] : i \in 1..Len(list)}

\* A filter on the slides and chunks only: the variant C20 is checked
\* against.
FilterWithoutCourse(course_id, slides, chunk_indices) ==
    [keys |-> (IF slides # <<>> THEN {"slide_id"} ELSE {})
              \cup (IF chunk_indices # <<>> THEN {"chunk_index"} ELSE {}),
     course_id |-> course_id,
     slide_id |-> ListSet(slides),
     chunk_index |-> ListSet(chunk_indices)]

\* filter_query of lines 133-141: keys are the fields the dictionary holds;
\* slide_id and chunk_index hold the values of their $in lists.
FilterQuery(course_id, slides, chunk_indices) ==
    [keys |-> {"course_id"}
              \cup (IF slides # <<>> THEN {"slide_id"} ELSE {})
              \cup (IF chunk_indices # <<>> THEN {"chunk_index"} ELSE {}),
     course_id |-> course_id,
     slide_id |-> ListSet(slides),
     chunk_index |-> ListSet(chunk_indices)]

\* A document matches a filter when every field the filter holds matches.
Matches(doc, filter_query) ==
    /\ "course_id" \in filter_query.keys => doc.course_id = filter_query.course_id
    /\ "slide_id" \in filter_query.keys => doc.slide_id \in filter_query.slide_id
    /\ "chunk_index" \in filter_query.keys
           => doc.chunk_index \in filter_query.chunk_index

\* $vectorSearch with a filter: the limit best-scoring documents among those
\* the filter matches, best first.
RECURSIVE TopK(_, _, _)
TopK(docs, query_embedding, limit) ==
    IF docs = {} \/ limit = 0 THEN <<>>
    ELSE LET best == CHOOSE d \in docs :
                         \A e \in docs : Score(e, query_embedding)
                                         <= Score(d, query_embedding)
         IN <<best>> \o TopK(docs \ {best}, query_embedding, limit - 1)

\* collection.aggregate(pipeline) on the collection as it is now.
VectorSearch(filter_query, query_embedding, limit) ==
    TopK({d \in collection : Matches(d, filter_query)}, query_embedding, limit)

\* formatted_chunk of lines 182-208: the embedding is dropped.
FormattedChunk(doc, query_embedding) ==
    [id |-> doc.id,
     metadata |-> [courseId |-> doc.course_id, slideId |-> doc.slide_id,
                   chunkIndex |-> doc.chunk_index],
     score |-> Score(doc, query_embedding)]

\* retrieve_similar_chunks(course_id, slides, chunks, query_embedding, limit);
\* an exception of collection.aggregate is raised again.
retrieve_similar_chunks(course_id, slides, chunk_indices, query_embedding, limit, up) ==
    LET results == VectorSearch(FilterQuery(course_id, slides, chunk_indices),
                                query_embedding, limit)
    IN [done |-> TRUE,
        course_id |-> course_id,
        slides |-> slides,
        chunk_indices |-> chunk_indices,
        limit |-> limit,
        raised |-> ~up,
        results |-> IF up
                    THEN [i \in 1..Len(results) |->
                             FormattedChunk(results[i], query_embedding)]
                    ELSE <<>>]

Queries ==
    [course_id : {"c1", "c2", "c9"},
     slides : {<<>>, <<"s1">>, <<"s2">>, <<"s1", "s2">>},
     chunk_indices : {<<>>, <<0>>, <<1>>, <<0, 1>>},
     query_embedding : {0, 7},
     limit : 1..MaxLimit]

RetrieveSimilarChunks ==
    \E q \in Queries, mongoUp \in BOOLEAN :
        /\ retrieval = NoRetrieval
        /\ retrieval' = retrieve_similar_chunks(q.course_id, q.slides, q.chunk_indices,
                                                q.query_embedding, q.limit, mongoUp)
        /\ UNCHANGED <<smVars, agentVars, storeVars, markdown, chunks, validation>>

RetrievalNext ==
    \/ RetrieveSimilarChunks

\* The retrievals run on a collection that holds Collection.
RetrievalInit ==
    /\ StateIdle
    /\ collection = Collection
    /\ storeLog = <<>>

RetrievalSpec == RetrievalInit /\ [][RetrievalNext]_vars

-----------------------------------------------------------------------------
(* The chunk collection: save_to_mongodb of inbound/embedding/embedding.py *)
(* and delete_vectors_by_metadata of manager/management_pipeline.py.       *)

\* Most chunks one ingestion hands to save_to_mongodb.
MaxChunks == 2
\* Most calls on the collection in one run of StoreSpec.
MaxCalls == 4

\* embedding.py:164  "if error.get('code') == 11000"
DuplicateKey == 11000
\* A write error of another kind: MongoDB's DocumentValidationFailure.
OtherWriteError == 121

\* The files the model ingests and deletes: they differ from the first in the
\* file name, in the slide and in the course.
FileA == [course_id |-> "c1", slide_id |-> "s1", s3_file_name |-> "a.pdf"]
FileB == [course_id |-> "c1", slide_id |-> "s1", s3_file_name |-> "b.pdf"]
FileS2 == [course_id |-> "c1", slide_id |-> "s2", s3_file_name |-> "a.pdf"]
FileC2 == [course_id |-> "c2", slide_id |-> "s1", s3_file_name |-> "a.pdf"]
Files == {FileA, FileB, FileS2, FileC2}

\* The chunks of a file after chunk_pdf and embed_chunks: chunk_index runs
\* from 0, the embedding is a number.
ChunksOf(file, n) ==
    [i \in 1..n |-> [course_id |-> file.course_id, slide_id |-> file.slide_id,
                     chunk_index |-> i - 1, s3_file_name |-> file.s3_file_name,
                     embedding |-> i]]

\* document of lines 106-129, with the fields the filters read.
Document(chunk) ==
    [id |-> ChunkId(chunk.course_id, chunk.slide_id, chunk.chunk_index),
     course_id |-> chunk.course_id, slide_id |-> chunk.slide_id,
     chunk_index |-> chunk.chunk_index, embedding |-> chunk.embedding,
     s3_file_name |-> chunk.s3_file_name]

\* The write error of the i-th operation of an unordered bulk write, 0 when it
\* is inserted: a document the server rejects, or one whose _id the collection
\* or an earlier insert of the batch holds.
WriteErrorOf(coll, batch_ops, faulty, i) ==
    IF batch_ops[i].id \in faulty THEN OtherWriteError
    ELSE IF \/ \E d \in coll : d.id = batch_ops[i].id
            \/ \E j \in 1..(i - 1) : /\ batch_ops[j].id = batch_ops[i].id
                                     /\ batch_ops[j].id \notin faulty
         THEN DuplicateKey
         ELSE 0

\* collection.bulk_write(batch_ops, ordered=False): every operation is tried;
\* with a write error the call raises BulkWriteError, whose details hold
\* nInserted and writeErrors.
bulk_write(coll, batch_ops, faulty) ==
    LET failed == {i \in 1..Len(batch_ops) : WriteErrorOf(coll, batch_ops, faulty, i) # 0}
    IN [inserted |-> {batch_ops[i] : i \in (1..Len(batch_ops)) \ failed},
        nInserted |-> Len(batch_ops) - Cardinality(failed),
        codes |-> {WriteErrorOf(coll, batch_ops, faulty, i) : i \in failed},
        duplicates |-> Cardinality({i \in failed :
                          WriteErrorOf(coll, batch_ops, faulty, i) = DuplicateKey}),
        BulkWriteError |-> failed # {}]

\* stats of lines 144-149.
NewStats(n) == [total_chunks |-> n, inserted |-> 0, errors |-> <<>>, duplicates |-> 0]

\* The except branch without the append of lines 167-171: the variant C24 is
\* checked against.
StatsWithoutError(stats, result, i, batch_end) ==
    [stats EXCEPT !.inserted = @ + result.nInserted,
                  !.duplicates = @ + result.duplicates]

\* Lines 154-171: what one batch adds to stats.
StatsAfter(stats, result, i, batch_end) ==
    IF result.BulkWriteError
    THEN [stats EXCEPT !.inserted = @ + result.nInserted,
                       !.duplicates = @ + result.duplicates,
                       !.errors = Append(@, [batch_start |-> i, batch_end |-> batch_end])]
    ELSE [stats EXCEPT !.inserted = @ + result.nInserted]

\* The loop of lines 151-171 from batch_start i on.  acc holds the collection,
\* stats and the batches tried so far; outage is the batch_start at which
\* bulk_write raises an exception that is no BulkWriteError (the server is not
\* reached), which leaves save_to_mongodb, or -1.
RECURSIVE WriteBatches(_, _, _, _, _, _)
WriteBatches(acc, operations, batch_size, faulty, outage, i) ==
    IF i >= Len(operations) THEN acc
    ELSE LET batch_end == Min(i + batch_size, Len(operations))
             batch_ops == SubSeq(operations, i + 1, batch_end)
             result == bulk_write(acc.collection, batch_ops, faulty)
         IN IF outage = i
            THEN [acc EXCEPT !.raised = TRUE,
                             !.attempts = Append(@, [batch_start |-> i, codes |-> {},
                                                     inserted |-> {}, raised |-> TRUE])]
            ELSE WriteBatches(
                     [collection |-> acc.collection \cup result.inserted,
                      stats |-> StatsAfter(acc.stats, result, i, batch_end),
                      raised |-> FALSE,
                      attempts |-> Append(acc.attempts,
                                          [batch_start |-> i, codes |-> result.codes,
                                           inserted |-> result.inserted,
                                           raised |-> FALSE])],
                     operations, batch_size, faulty, outage, i + batch_size)

\* save_to_mongodb(chunks, mongo_client, batch_size) on the collection coll.
save_to_mongodb(coll, chunk_list, batch_size, faulty, outage) ==
    LET operations == [i \in 1..Len(chunk_list) |-> Document(chunk_list[i])]
    IN WriteBatches([collection |-> coll, stats |-> NewStats(Len(chunk_list)),
                     raised |-> FALSE, attempts |-> <<>>],
                    operations, batch_size, faulty, outage, 0)

\* statistics.chunks_saved of the inbound handler's result.
chunks_saved(stats) == stats.inserted

\* filter_query of lines 68-74 and 106-112: a field is put in the dictionary
\* only "if course_id:", that is when the argument is not the empty string.
DeleteFilter(course_id, slide_id, s3_file_name) ==
    [keys |-> (IF course_id # "" THEN {"course_id"} ELSE {})
              \cup (IF slide_id # "" THEN {"slide_id"} ELSE {})
              \cup (IF s3_file_name # "" THEN {"s3_file_name"} ELSE {}),
     course_id |-> course_id, slide_id |-> slide_id, s3_file_name |-> s3_file_name]

\* A document matches when every field the filter holds is equal.
MatchesExactly(doc, filter_query) ==
    /\ "course_id" \in filter_query.keys => doc.course_id = filter_query.course_id
    /\ "slide_id" \in filter_query.keys => doc.slide_id = filter_query.slide_id
    /\ "s3_file_name" \in filter_query.keys
           => doc.s3_file_name = filter_query.s3_file_name

\* count_documents_sync: collection.count_documents(filter_query).
count_documents_sync(coll, course_id, slide_id, s3_file_name) ==
    Cardinality({d \in coll :
                    MatchesExactly(d, DeleteFilter(course_id, slide_id, s3_file_name))})

\* A delete_one in place of delete_many: the variant C22 is checked against.
DeleteOne(coll, course_id, slide_id, s3_file_name) ==
    LET matched == {d \in coll :
                       MatchesExactly(d, DeleteFilter(course_id, slide_id, s3_file_name))}
        first == IF matched = {} THEN {}
                 ELSE {CHOOSE d \in matched :
                          \A e \in matched : d.chunk_index <= e.chunk_index}
    IN [deleted_count |-> Cardinality(first), collection |-> coll \ first]

\* delete_documents_sync: collection.delete_many(filter_query), with the
\* collection it leaves.
delete_documents_sync(coll, course_id, slide_id, s3_file_name) ==
    LET matched == {d \in coll :
                       MatchesExactly(d, DeleteFilter(course_id, slide_id, s3_file_name))}
    IN [deleted_count |-> Cardinality(matched), collection |-> coll \ matched]

\* delete_vectors_by_metadata on the collection coll.  mongo is "up", "down"
\* (the count raises) or "unacknowledged" (the client's write concern is 0:
\* the delete is sent and its result carries no count).
delete_vectors_by_metadata(coll, course_id, slide_id, s3_file_name, mongo) ==
    LET documents_to_delete == count_documents_sync(coll, course_id, slide_id, s3_file_name)
        delete_result == delete_documents_sync(coll, course_id, slide_id, s3_file_name)
    IN IF mongo = "down"
       THEN [success |-> FALSE, vectors_deleted |-> 0, deletes |-> 0, collection |-> coll]
       ELSE IF documents_to_delete = 0
       THEN [success |-> TRUE, vectors_deleted |-> 0, deletes |-> 0, collection |-> coll]
       ELSE IF mongo = "unacknowledged"
       THEN [success |-> FALSE, vectors_deleted |-> 0, deletes |-> 1,
             collection |-> delete_result.collection]
       ELSE [success |-> TRUE, vectors_deleted |-> delete_result.deleted_count,
             deletes |-> 1, collection |-> delete_result.collection]

\* One call of save_to_mongodb on the collection, logged with its result.
Save(file, n, batch_size, faulty, outage) ==
    LET r == save_to_mongodb(collection, ChunksOf(file, n), batch_size, faulty, outage)
    IN /\ collection' = r.collection
       /\ storeLog' = Append(storeLog,
              [kind |-> "save", file |-> file, chunks |-> n, batch_size |-> batch_size,
               before |-> collection, after |-> r.collection, raised |-> r.raised,
               stats |-> r.stats, attempts |-> r.attempts])
       /\ UNCHANGED <<smVars, agentVars, ragVars>>

\* One call of delete_vectors_by_metadata, logged with the dictionary it
\* returns.
Delete(course_id, slide_id, s3_file_name, mongo) ==
    LET r == delete_vectors_by_metadata(collection, course_id, slide_id,
                                        s3_file_name, mongo)
    IN /\ collection' = r.collection
       /\ storeLog' = Append(storeLog,
              [kind |-> "delete", course_id |-> course_id, slide_id |-> slide_id,
               s3_file_name |-> s3_file_name, mongo |-> mongo, before |-> collection,
               after |-> r.collection, success |-> r.success, vectors_deleted |-> r.vectors_deleted,
               deletes |-> r.deletes])
       /\ UNCHANGED <<smVars, agentVars, ragVars>>

\* One retrieval on a course, without slides or chunk indices.
Retrieve(course_id) ==
    /\ storeLog' = Append(storeLog,
           [kind |-> "retrieve", course_id |-> course_id, before |-> collection,
            results |-> retrieve_similar_chunks(course_id, <<>>, <<>>, 0,
                                                MaxChunks + 1, TRUE).results])
    /\ UNCHANGED <<smVars, agentVars, ragVars, collection>>

\* The collection after file was saved whole.
After(coll, file, n) == save_to_mongodb(coll, ChunksOf(file, n), 100, {}, -1).collection

\* Collections that earlier ingestions leave: empty, one file, a file partly
\* replaced by another of the same slide, files of several slides and courses.
StoredCollections ==
    {{}, After({}, FileA, 1), After({}, FileA, 2),
     After(After({}, FileA, 1), FileB, 2),
     After(After(After({}, FileA, 2), FileS2, 1), FileC2, 2),
     After(After(After({}, FileB, 1), FileS2, 2), FileC2, 1)}

\* The ids of a file's chunks.
ChunkIdsOf(file, n) == {Document(ChunksOf(file, n)[i]).id : i \in 1..n}

\* The batch_start values of a run of n operations.
BatchStarts(n, batch_size) == {i \in 0..(n - 1) : i % batch_size = 0}

\* save_to_mongodb on any of the collections, with any batch size and faults.
SaveAny ==
    \E file \in Files, n \in 1..MaxChunks, batch_size \in {1, 2, 100} :
        \E faulty \in SUBSET ChunkIdsOf(file, n), outage \in {-1} \cup BatchStarts(n, batch_size) :
            /\ storeLog = <<>>
            /\ Save(file, n, batch_size, faulty, outage)

\* delete_vectors_by_metadata with any three strings, the empty one included.
DeleteAny ==
    \E course_id \in {"c1", "c2", ""}, slide_id \in {"s1", "s2", ""} :
        \E s3_file_name \in {"a.pdf", "b.pdf", ""} :
            \E mongo \in {"up", "down", "unacknowledged"} :
                /\ storeLog = <<>>
                /\ Delete(course_id, slide_id, s3_file_name, mongo)

CallInit ==
    /\ StateIdle
    /\ collection \in StoredCollections
    /\ storeLog = <<>>

CallNext ==
    \/ SaveAny
    \/ DeleteAny

\* One call on a collection that earlier calls filled.
CallSpec == CallInit /\ [][CallNext]_vars

\* The files of the runs of StoreSpec: two slides of one course.
StoreFiles == {FileA, FileS2}

\* An ingestion of a file in the default batch size; the server may reject the
\* first chunk.
Ingest ==
    \E file \in StoreFiles, n \in 1..MaxChunks :
        \E faulty \in {{}, ChunkIdsOf(FileA, 1)} :
            /\ Len(storeLog) < MaxCalls
            /\ Save(file, n, 100, faulty, -1)

\* A deletion of a file.
DeleteFile ==
    \E file \in StoreFiles, mongo \in {"up", "down"} :
        /\ Len(storeLog) < MaxCalls
        /\ Delete(file.course_id, file.slide_id, file.s3_file_name, mongo)

\* A retrieval on the course of the files.
RetrieveCourse ==
    /\ Len(storeLog) < MaxCalls
    /\ Retrieve("c1")

StoreNext ==
    \/ Ingest
    \/ DeleteFile
    \/ RetrieveCourse

\* Runs of ingestions, deletions and retrievals from an empty collection.
StoreSpec == Init /\ [][StoreNext]_vars

-----------------------------------------------------------------------------
(* Properties of the chunker. *)

\* The chunks of the group of original_chunk_id g, as positions in chunks.
Siblings(g) == {i \in 1..Len(chunks) : chunks[i].original_chunk_id = g}

\* C14: in the chunker output the chunks that share an original_chunk_id
\* occupy a contiguous chunk_index range, and the sentence_sibling_index of
\* each is its rank in the group in chunk_index order: 0..k-1 for a group of
\* k chunks.
C14_SiblingsContiguous ==
    \A i \in 1..Len(chunks) :
        LET group == Siblings(chunks[i].original_chunk_id) IN
        /\ \A j \in group, m \in 1..Len(chunks) :
              (chunks[i].chunk_index <= chunks[m].chunk_index
               /\ chunks[m].chunk_index <= chunks[j].chunk_index) => m \in group
        /\ chunks[i].sentence_sibling_index =
              Cardinality({j \in group : chunks[j].chunk_index < chunks[i].chunk_index})
        /\ chunks[i].sentence_sibling_index < Cardinality(group)

\* Two sections were split in two each: the sort brought each pair together.
C14_Witness ==
    /\ Len(chunks) = 4
    /\ Cardinality(Siblings(0)) = 2
    /\ Cardinality(Siblings(1)) = 2
    /\ chunks[2].sentence_sibling_index = 1
    /\ chunks[4].sentence_sibling_index = 1

\* C15: when the sibling validation finds a violation it raises
\* ChunkerInvariantError naming the offending original_chunk_id, so that the
\* chunker does not return the chunks.
C15_ValidationRaises ==
    (validation.done /\ validation.issues_found)
    => /\ validation.raised
       /\ ~validation.returned

\* The chunk with chunk_index j.
ChunkAt(j) == chunks[j + 1]

\* The nearest header chunk before position i, 0 when there is none.
HeaderBefore(i) ==
    LET before == {j \in 1..(i - 1) : chunks[j].is_header} IN
    IF before = {} THEN 0 ELSE MaxOf(before)

\* C16: every index j in a chunk's headers_hierarchy is below the chunk's
\* own chunk_index and names a chunk with is_header = true, and the header
\* levels rise strictly along the list; a header chunk of level L clears the
\* tracked headers below it and sets level L: the hierarchy of a regular
\* chunk ends with the nearest header chunk before it, and the hierarchy of
\* a header chunk holds levels above its own only.
C16_HeaderHierarchy ==
    \A i \in 1..Len(chunks) :
        LET c == chunks[i]
            hh == c.headers_hierarchy
        IN /\ \A p \in 1..Len(hh) :
                 /\ hh[p] >= 0
                 /\ hh[p] < c.chunk_index
                 /\ ChunkAt(hh[p]).is_header
                 /\ p > 1 => ChunkAt(hh[p - 1]).header_level
                                < ChunkAt(hh[p]).header_level
                 /\ c.is_header => ChunkAt(hh[p]).header_level < c.header_level
           /\ (~c.is_header /\ HeaderBefore(i) # 0)
                 => /\ hh # <<>>
                    /\ hh[Len(hh)] = chunks[HeaderBefore(i)].chunk_index

\* A level-2 header, then a level-1 header, then a regular chunk: the
\* regular chunk is under the level-1 header only.
C16_Witness ==
    /\ Len(chunks) >= 3
    /\ \E i \in 1..(Len(chunks) - 2) :
          /\ chunks[i].is_header /\ chunks[i].header_level = 2
          /\ chunks[i + 1].is_header /\ chunks[i + 1].header_level = 1
          /\ ~chunks[i + 2].is_header
          /\ chunks[i + 2].headers_hierarchy = <<chunks[i + 1].chunk_index>>

\* C17: the chunker output is ordered by char_start_pos, and the i-th chunk
\* (from 0) has chunk_index i and the id "{course}:{slide}:{i}".
C17_DenseOrdered ==
    /\ \A i \in 1..Len(chunks) :
          /\ chunks[i].chunk_index = i - 1
          /\ chunks[i].id = ChunkId(markdown.course_id, markdown.slide_id, i - 1)
    /\ \A i, j \in 1..Len(chunks) :
          i < j => chunks[i].char_start_pos <= chunks[j].char_start_pos

\* The first section was split after the second had been taken as it is: the
\* sort moved the second section's chunk from the front to the end.
C17_Witness ==
    /\ Len(chunks) = 3
    /\ chunks[1].split_level = "recursive"
    /\ chunks[2].split_level = "recursive"
    /\ chunks[3].split_level = "markdown"
    /\ chunks[3].original_chunk_id = 1

\* C18: every chunk has 1 <= page_start <= page_end <= total_pages.
C18_PageRange ==
    \A i \in 1..Len(chunks) :
        /\ 1 <= chunks[i].page_start
        /\ chunks[i].page_start <= chunks[i].page_end
        /\ chunks[i].page_end <= chunks[i].total_pages
        /\ chunks[i].total_pages = Len(markdown.pages)

\* A chunk that starts on the second of three pages and ends on the third.
C18_Witness ==
    \E i \in 1..Len(chunks) :
        /\ chunks[i].total_pages = 3
        /\ chunks[i].page_start = 2
        /\ chunks[i].page_end = 3

\* C19: every chunk with split_level "recursive" has at most max_words words.
C19_RecursiveWordBound ==
    \A i \in 1..Len(chunks) :
        chunks[i].split_level = "recursive" => chunks[i].word_count <= MaxWords

-----------------------------------------------------------------------------
(* Properties of the retrieval. *)

\* C20: every document a retrieval returns has the query's course_id, a
\* slide_id among the query's slides unless that list is empty, and a
\* chunk_index among the query's chunk indices unless that list is empty.
C20_PreFilterExact ==
    retrieval.done =>
        \A i \in 1..Len(retrieval.results) :
            LET m == retrieval.results[i].metadata IN
            /\ m.courseId = retrieval.course_id
            /\ retrieval.slides = <<>> \/ m.slideId \in ListSet(retrieval.slides)
            /\ retrieval.chunk_indices = <<>>
                  \/ m.chunkIndex \in ListSet(retrieval.chunk_indices)

\* A query without slides and with one chunk index returned that chunk of two
\* slides of the course.
C20_Witness ==
    /\ retrieval.done
    /\ retrieval.slides = <<>>
    /\ retrieval.chunk_indices = <<1>>
    /\ Len(retrieval.results) = 2
    /\ retrieval.results[1].metadata.slideId # retrieval.results[2].metadata.slideId

-----------------------------------------------------------------------------
(* Properties of the chunk collection. *)

Calls(kind) == {i \in 1..Len(storeLog) : storeLog[i].kind = kind}

\* C21: a deletion that reaches the server removes exactly the documents
\* whose course_id, slide_id and s3_file_name all equal its arguments, in at
\* most one bulk delete, and leaves every other document in place.
C21_DeleteExact ==
    \A i \in Calls("delete") :
        LET e == storeLog[i] IN
        e.mongo = "up" =>
            /\ e.deletes <= 1
            /\ e.after = {d \in e.before : ~ (/\ d.course_id = e.course_id
                                              /\ d.slide_id = e.slide_id
                                              /\ d.s3_file_name = e.s3_file_name)}

\* The i-th call saved a file, returned, and the collection held no chunk of
\* the file's course before it.
FirstIngestion(i) ==
    /\ i \in Calls("save")
    /\ ~ storeLog[i].raised
    /\ \A d \in storeLog[i].before : d.course_id # storeLog[i].file.course_id

\* The j-th call is a deletion of file that reached the server.
DeletionOf(j, file) ==
    /\ j \in Calls("delete")
    /\ storeLog[j].mongo = "up"
    /\ storeLog[j].course_id = file.course_id
    /\ storeLog[j].slide_id = file.slide_id
    /\ storeLog[j].s3_file_name = file.s3_file_name

\* C22: the deletion that follows the ingestion of a file into a collection
\* without chunks of its course returns vectors_deleted equal to the
\* ingestion's chunks_saved; a retrieval on the course right after it returns
\* no result; the same deletion again, right after the first or after that
\* retrieval, reports success with vectors_deleted 0.
C22_DeleteAfterIngestion ==
    \A i \in 1..Len(storeLog) :
        (FirstIngestion(i) /\ DeletionOf(i + 1, storeLog[i].file)) =>
            LET file == storeLog[i].file IN
            /\ storeLog[i + 1].success
            /\ storeLog[i + 1].vectors_deleted = chunks_saved(storeLog[i].stats)
            /\ (i + 2 \in Calls("retrieve") /\ storeLog[i + 2].course_id = file.course_id)
                   => storeLog[i + 2].results = <<>>
            /\ DeletionOf(i + 2, file)
                   => storeLog[i + 2].success /\ storeLog[i + 2].vectors_deleted = 0
            /\ (i + 2 \in Calls("retrieve") /\ DeletionOf(i + 3, file))
                   => storeLog[i + 3].success /\ storeLog[i + 3].vectors_deleted = 0

\* An ingestion of two chunks saved one of them, the deletion returned 1, the
\* retrieval nothing and the second deletion 0.
C22_Witness ==
    /\ Len(storeLog) = 4
    /\ FirstIngestion(1)
    /\ storeLog[1].stats.total_chunks = 2
    /\ chunks_saved(storeLog[1].stats) = 1
    /\ DeletionOf(2, storeLog[1].file)
    /\ storeLog[2].vectors_deleted = 1
    /\ 3 \in Calls("retrieve")
    /\ storeLog[3].results = <<>>
    /\ DeletionOf(4, storeLog[1].file)
    /\ storeLog[4].success
    /\ storeLog[4].vectors_deleted = 0

\* The batches a save runs through when nothing stops it.
Batches(e) == Cardinality(BatchStarts(e.chunks, e.batch_size))

\* The entry of errors[] for the batch that starts at batch_start.
Reported(e, batch_start) ==
    \E j \in 1..Len(e.stats.errors) : e.stats.errors[j].batch_start = batch_start

\* C23: a batch of a save whose write errors are all duplicate keys adds no
\* entry to errors[], its duplicates are counted, and the documents of the
\* batch that are no duplicates are in the collection afterwards.
C23_DuplicatesNoFailure ==
    \A i \in Calls("save") :
        LET e == storeLog[i] IN
        ~ e.raised =>
            \A k \in 1..Len(e.attempts) :
                e.attempts[k].codes = {DuplicateKey} =>
                    /\ ~ Reported(e, e.attempts[k].batch_start)
                    /\ e.stats.duplicates > 0
                    /\ e.attempts[k].inserted \subseteq e.after

-----------------------------------------------------------------------------
(* Properties of the conversation. *)

\* The last request called retrieve_previous_sources: its run is the user
\* message, the LLM's call, the tool's message, the answer.
PreviousCall ==
    /\ op.name = "process_query"
    /\ Len(op.emitted) = 4
    /\ op.emitted[3].name = "retrieve_previous_sources"

AskedIds == op.emitted[2].tool_calls[1].tool_message_ids

Returned == Parse(op.emitted[3].content)

\* The sources the stored thread holds under the tool messages ids that are
\* successful searches of one kind, message after message in the order of
\* the thread, each source with the id of its message.
RECURSIVE SourcesOfKind(_, _, _)
SourcesOfKind(stored, ids, kind) ==
    IF stored = <<>> THEN <<>>
    ELSE LET msg == Head(stored)
             held == /\ msg.type = "tool"
                     /\ msg.id \in ids
                     /\ msg.name = kind
                     /\ msg.content.kind = "json"
                     /\ msg.content.doc.success
             found == IF held THEN msg.content.doc.results ELSE <<>>
         IN [i \in 1..Len(found) |->
                [id |-> found[i].id, text |-> found[i].text,
                 from_tool_message |-> msg.id]]
            \o SourcesOfKind(Tail(stored), ids, kind)

\* C26: retrieve_previous_sources, called in a later request with the ids of
\* tool messages the thread holds, returns the sources those messages were
\* stored with, id and full text, each with from_tool_message set to the id
\* of its message; for several ids it returns the sources of the one message
\* after those of the other: the rag searches first, then the web searches,
\* each kind in the order of the thread.
C26_PreviousSources ==
    PreviousCall =>
        LET ids == {AskedIds[i] : i \in 1..Len(AskedIds)}
            rag == SourcesOfKind(op.before, ids, "rag_search_tool")
            web == SourcesOfKind(op.before, ids, "web_search_tool")
        IN /\ Returned.success
           /\ Returned.rag_sources = rag
           /\ Returned.web_sources = web
           /\ Returned.results = rag \o web

\* The earlier request ran rag_search and its message T was stored with the
\* sources "1", "2", "3"; this request asked for T alone and got the three.
C26_Witness ==
    /\ PreviousCall
    /\ op.search_type = "DEFAULT"
    /\ Len(AskedIds) = 1
    /\ \E i \in 1..Len(op.before) :
          /\ op.before[i].id = AskedIds[1]
          /\ op.before[i].name = "rag_search_tool"
    /\ Returned.results
          = <<[id |-> "1", text |-> "c1", from_tool_message |-> AskedIds[1]],
              [id |-> "2", text |-> "c2", from_tool_message |-> AskedIds[1]],
              [id |-> "3", text |-> "c3", from_tool_message |-> AskedIds[1]]>>

\* C30: a request leaves every tool message of the primary store where it is
\* and as it is, and stores each tool message of its run with the content the
\* tools node gave it: the summaries of the history are never written.
C30_ToolContentKept ==
    [][/\ \A i \in 1..Len(primary.messages) :
             primary.messages[i].type = "tool" =>
                /\ i <= Len(primary'.messages)
                /\ primary'.messages[i] = primary.messages[i]
       /\ op'.name = "process_query" =>
             \A k \in 1..Len(op'.emitted) :
                op'.emitted[k].cls = "ToolMessage" =>
                   \E j \in 1..Len(primary'.messages) :
                      /\ primary'.messages[j].id = op'.emitted[k].id
                      /\ primary'.messages[j].content = op'.emitted[k].content]_vars

\* A later request loaded the summary of a search and appended its run: the
\* primary store still holds the search with its MaxHits results.
C30_Witness ==
    /\ op.name = "process_query"
    /\ \E i \in 1..Len(op.before) :
          /\ op.before[i].type = "tool"
          /\ op.history[i].id = op.before[i].id
          /\ IsSummary(op.history[i].content)
          /\ primary.messages[i].id = op.before[i].id
          /\ primary.messages[i].content.kind = "json"
          /\ Len(primary.messages[i].content.doc.results) = MaxHits
    /\ Len(primary.messages) > Len(op.before)

-----------------------------------------------------------------------------
(* Properties of the tools node. *)

\* The results the calls before call k gave to the counter of call k's tool.
HitsBefore(calls, outcomes, k) ==
    IF k <= 1 THEN 0
    ELSE SumSeq([i \in 1..(k - 1) |->
                    IF calls[i].name = calls[k].name /\ outcomes[i] > 0
                    THEN outcomes[i] ELSE 0])

====
